---- MODULE Spec2Model ----
(***************************************************************************)
(* Model of the GMGN client's request pipeline (packages/gmgn/client.py)   *)
(* and of the DexScreen components' input validation                        *)
(* (components/dexscreen/*.py).                                             *)
(*                                                                         *)
(* Text values that the code parses (header values, cookie names, address  *)
(* lists) are sequences of one-character strings; text values the code     *)
(* only passes along are TLA+ strings.                                      *)
(***************************************************************************)
EXTENDS Integers, Sequences, FiniteSets, TLC

\* ------------------------------------------------------------------ bounds
\* number of fetches of a report that are modelled as running concurrently
NumTasks == 2
\* number of client operations the sequential caller issues
MaxCalls == 2
\* number of cookie entries in one clearance-service response
MaxCfCookies == 2
\* number of text pieces a Zr-Set-Cookie header value is built from
MaxPieces == 3
\* number of characters of a token_addresses input
MaxAddrLen == 3

\* ------------------------------------------------------- text operations
Whitespace == {" "}

\* str.strip(): drop leading and trailing whitespace
RECURSIVE LStrip(_)
LStrip(s) ==
    IF s # <<>> /\ Head(s) \in Whitespace THEN LStrip(Tail(s)) ELSE s

RECURSIVE RStrip(_)
RStrip(s) ==
    IF s # <<>> /\ s[Len(s)] \in Whitespace
    THEN RStrip(SubSeq(s, 1, Len(s) - 1)) ELSE s

Strip(s) == RStrip(LStrip(s))

\* c in s
Contains(s, c) == \E i \in 1..Len(s) : s[i] = c

\* position of the first c in s (s contains c)
FirstIndex(s, c) ==
    CHOOSE i \in 1..Len(s) : s[i] = c /\ \A j \in 1..(i - 1) : s[j] # c

\* str.split(c): the pieces of s between the occurrences of c; never empty
RECURSIVE Split(_, _)
Split(s, c) ==
    IF ~Contains(s, c) THEN <<s>>
    ELSE LET i == FirstIndex(s, c)
         IN  <<SubSeq(s, 1, i - 1)>> \o Split(SubSeq(s, i + 1, Len(s)), c)

\* str.split(c, 1): the text before the first c and the text after it
SplitOnce(s, c) ==
    LET i == FirstIndex(s, c)
    IN  <<SubSeq(s, 1, i - 1), SubSeq(s, i + 1, Len(s))>>

\* concatenation of a sequence of texts
RECURSIVE Concat(_)
Concat(ss) == IF ss = <<>> THEN <<>> ELSE Head(ss) \o Concat(Tail(ss))

\* sequences over S of length at most n
SeqsUpTo(S, n) == UNION {[1..k -> S] : k \in 0..n}

\* ---------------------------------------------------------- cookie jar
\* RequestsCookieJar.set(name, value, domain=, path=): one cookie per
\* (domain, path, name); a later set replaces the earlier cookie
SetCookie(jar, name, value, domain, path) ==
    {c \in jar : ~(c.name = name /\ c.domain = domain /\ c.path = path)}
        \cup {[name |-> name, value |-> value, domain |-> domain, path |-> path]}

\* GmGnClient._update_cookies_from_headers: the jar after the call
UpdateCookiesFromHeaders(jar, hdr_present, hdr) ==
    IF ~hdr_present THEN jar
    ELSE IF hdr = <<>> THEN jar
    ELSE LET parts     == Split(hdr, ";")
             main_part == Strip(parts[1])
         IN  IF Contains(main_part, "=")
             THEN LET nv == SplitOnce(main_part, "=")
                  IN  SetCookie(jar, nv[1], nv[2], ".gmgn.ai", "/")
             ELSE jar

\* ---------------------------------------------------------------- inputs
Threads == 0..NumTasks
\* the thread of a caller that issues one client operation after another
Caller == 0
\* the executor threads that run the fetches of one report
ReportTasks == 1..NumTasks

\* decoded JSON bodies
Bodies == {"d1", "d2"}
NoBody == "none"

TokenAddresses == {"", "Tok"}

\* the client operations: endpoint method, its token address, whether it
\* passes params to _make_request and whether params carries no_proxy
Calls ==
    {[method |-> "get_trending", token_address |-> "", has_params |-> TRUE,
      no_proxy |-> np] : np \in BOOLEAN}
    \cup
    {[method |-> "get_token_info", token_address |-> a, has_params |-> FALSE,
      no_proxy |-> FALSE] : a \in TokenAddresses}
NoCall ==
    [method |-> "none", token_address |-> "", has_params |-> FALSE,
     no_proxy |-> FALSE]

\* what a GET can come back with: an exception, or a response with a status,
\* a body that decodes or not, and possibly a Zr-Set-Cookie header
Raised ==
    [raised |-> TRUE, status |-> 0, json_ok |-> FALSE, body |-> NoBody,
     hdr_present |-> FALSE, hdr |-> <<>>]
NoResponse ==
    [raised |-> FALSE, status |-> 0, json_ok |-> FALSE, body |-> NoBody,
     hdr_present |-> FALSE, hdr |-> <<>>]
Statuses(H) ==
    LET Hdrs == {[p |-> FALSE, h |-> <<>>]} \cup {[p |-> TRUE, h |-> h] : h \in H}
    IN  {[raised |-> FALSE, status |-> 200, json_ok |-> TRUE, body |-> b,
          hdr_present |-> x.p, hdr |-> x.h] : b \in Bodies, x \in Hdrs}
        \cup
        {[raised |-> FALSE, status |-> s, json_ok |-> FALSE, body |-> NoBody,
          hdr_present |-> x.p, hdr |-> x.h] : s \in {200, 401, 403, 500}, x \in Hdrs}
DirectResponses == {Raised} \cup Statuses({})

\* Zr-Set-Cookie header values: up to MaxPieces pieces, concatenated
HeaderPieces ==
    {<<"a", "=", "1">>, <<"b", "=", "2">>, <<";">>, <<",">>, <<" ">>, <<"=">>}
HeaderValues == {Concat(ps) : ps \in SeqsUpTo(HeaderPieces, MaxPieces)}
\* the header values of the specifications that are not about cookie parsing
FewHeaderValues == {<<"a", "=", "1">>, <<"b", "=", "2", ";", " ", "a", "=", "1">>}
ProxyResponses(H) == {Raised} \cup Statuses(H)

\* cookie entries of a clearance-service response; a malformed entry lacks
\* one of the keys name, value, domain, path
CfCookieEntries ==
    {[ok |-> TRUE, name |-> <<"c", "f">>, value |-> <<"1">>,
      domain |-> ".gmgn.ai", path |-> "/"],
     [ok |-> FALSE, name |-> <<>>, value |-> <<>>, domain |-> "", path |-> ""]}
DefaultUserAgent == "UA0"
\* user-agent of a clearance-service response; "" when it carries none
CfUserAgents == {"", "UA1"}
CfRaised ==
    [raised |-> TRUE, status |-> 0, json_ok |-> FALSE, cookies |-> <<>>, ua |-> ""]
CfResponses ==
    {CfRaised}
    \cup {[raised |-> FALSE, status |-> s, json_ok |-> FALSE, cookies |-> <<>>,
           ua |-> ""] : s \in {200, 500}}
    \cup {[raised |-> FALSE, status |-> 200, json_ok |-> TRUE, cookies |-> cs,
           ua |-> u] : cs \in SeqsUpTo(CfCookieEntries, MaxCfCookies),
                       u \in CfUserAgents}
NoPending == [cookies |-> <<>>, ua |-> ""]

\* get_all_token_info_for_markdown: not called
NoReport == [pc |-> "idle", token_address |-> ""]

\* the responses of the specification of the report, in which the fetches
\* run concurrently
ReportCfResponses ==
    {CfRaised,
     [raised |-> FALSE, status |-> 200, json_ok |-> TRUE,
      cookies |-> <<[ok |-> TRUE, name |-> <<"c", "f">>, value |-> <<"1">>,
                     domain |-> ".gmgn.ai", path |-> "/"]>>,
      ua |-> "UA1"]}
ReportDirectResponses ==
    {Raised,
     [raised |-> FALSE, status |-> 200, json_ok |-> TRUE, body |-> "d1",
      hdr_present |-> FALSE, hdr |-> <<>>],
     [raised |-> FALSE, status |-> 403, json_ok |-> FALSE, body |-> NoBody,
      hdr_present |-> FALSE, hdr |-> <<>>]}
ReportProxyResponses ==
    {Raised,
     [raised |-> FALSE, status |-> 200, json_ok |-> TRUE, body |-> "d2",
      hdr_present |-> TRUE, hdr |-> <<"a", "=", "1">>],
     [raised |-> FALSE, status |-> 500, json_ok |-> FALSE, body |-> NoBody,
      hdr_present |-> FALSE, hdr |-> <<>>]}

\* ------------------------------------------------- DexScreen components
\* a text input of a component: not given (None), or given with a text
Absent == [given |-> FALSE, text |-> <<>>]
Given(s) == [given |-> TRUE, text |-> s]
\* Python truth value of a text input: None and "" are false
Falsy(v) == ~v.given \/ v.text = <<>>

DexTexts == {Absent, Given(<<>>), Given(<<"x">>)}
\* the number of addresses that one lookup takes
MaxAddresses == 30
\* n addresses, comma-joined
Addresses(n) == [i \in 1..(2 * n - 1) |-> IF i % 2 = 1 THEN "x" ELSE ","]
\* the texts of token_addresses: the short ones, and the texts of as many
\* addresses as are allowed and of one more
AddressTexts ==
    {Absent} \cup {Given(a) : a \in SeqsUpTo({"x", ",", " "}, MaxAddrLen)}
    \cup {Given(Addresses(MaxAddresses)), Given(Addresses(MaxAddresses + 1))}

DexScreenMethod ==
    {"get_token_profiles", "get_boosted_tokens", "get_top_boosted_tokens",
     "get_token_orders", "get_pairs", "get_pairs_by_token", "search_pairs"}

\* what the HTTP request of a DexScreen call comes back with: a body of the
\* expected shape, a status that raise_for_status rejects, an exception of
\* the request, or a body of another shape
DexHttp == {"ok", "http_error", "transport_error", "bad_shape"}

\* sep.join(parts)
RECURSIVE Join(_, _)
Join(parts, sep) ==
    IF parts = <<>> THEN <<>>
    ELSE IF Len(parts) = 1 THEN parts[1]
    ELSE parts[1] \o sep \o Join(Tail(parts), sep)

\* [addr.strip() for addr in token_addresses.split(",") if addr.strip()]
RECURSIVE StripNonEmpty(_)
StripNonEmpty(parts) ==
    IF parts = <<>> THEN <<>>
    ELSE IF Strip(Head(parts)) # <<>>
    THEN <<Strip(Head(parts))>> \o StripNonEmpty(Tail(parts))
    ELSE StripNonEmpty(Tail(parts))
AddressesList(text) == StripNonEmpty(Split(text, ","))

Url(endpoint, args) == [endpoint |-> endpoint, args |-> args]

\* raise ValueError(cause) before any request
Invalid(cause) == [requests |-> <<>>, ok |-> FALSE, cause |-> cause, http |-> "none"]

\* Fetch without raise_for_status(): the body of an error response is
\* decoded as if it were the data
Fetch_WithoutRaiseForStatus(url, http) ==
    [requests |-> <<url>>, ok |-> (http \in {"ok", "http_error"}),
     cause |-> IF http \in {"ok", "http_error"} THEN "" ELSE http, http |-> http]

\* requests.get(url), raise_for_status() and the decoding of the body
Fetch(url, http) ==
    [requests |-> <<url>>, ok |-> (http = "ok"),
     cause |-> IF http = "ok" THEN "" ELSE http, http |-> http]

\* DexScreenToolComponent._dexscreen_tool, inside its try block
DexscreenToolBody(chain_id, pair_id, token_addresses, search_query, method, http) ==
    CASE method = "get_token_profiles" ->
            Fetch(Url("/token-profiles/latest/v1", <<>>), http)
      [] method = "get_boosted_tokens" ->
            Fetch(Url("/token-boosts/latest/v1", <<>>), http)
      [] method = "get_top_boosted_tokens" ->
            Fetch(Url("/token-boosts/top/v1", <<>>), http)
      [] method = "get_token_orders" ->
            IF Falsy(chain_id) \/ Falsy(token_addresses)
            THEN Invalid("Both chain_id and token_addresses are required for GET_TOKEN_ORDERS")
            ELSE Fetch(Url("/orders/v1", <<chain_id.text, token_addresses.text>>), http)
      [] method = "get_pairs" ->
            IF Falsy(chain_id) \/ Falsy(pair_id)
            THEN Invalid("Both chain_id and pair_id are required for GET_PAIRS")
            ELSE Fetch(Url("/latest/dex/pairs", <<chain_id.text, pair_id.text>>), http)
      [] method = "get_pairs_by_token" ->
            IF Falsy(token_addresses)
            THEN Invalid("token_addresses is required for GET_PAIRS_BY_TOKEN")
            ELSE IF Len(AddressesList(token_addresses.text)) > MaxAddresses
            THEN Invalid("Maximum of 30 token addresses allowed")
            ELSE Fetch(Url("/latest/dex/tokens",
                           <<Join(AddressesList(token_addresses.text), <<",">>)>>),
                       http)
      [] method = "search_pairs" ->
            IF Falsy(search_query)
            THEN Invalid("search_query is required for SEARCH_PAIRS")
            ELSE Fetch(Url("/latest/dex/search", <<search_query.text>>), http)
      [] OTHER -> Invalid("Unknown method")

\* PairsTool._get_pairs, inside its try block
GetPairsBody(chain_id, pair_id, http) ==
    IF Falsy(chain_id) \/ Falsy(pair_id)
    THEN Invalid("Both chain_id and pair_id are required")
    ELSE Fetch(Url("/latest/dex/pairs", <<chain_id.text, pair_id.text>>), http)

\* OrdersTool._get_orders, inside its try block
GetOrdersBody(chain_id, token_address, http) ==
    IF Falsy(chain_id) \/ Falsy(token_address)
    THEN Invalid("Both chain_id and token_address are required")
    ELSE Fetch(Url("/orders/v1", <<chain_id.text, token_address.text>>), http)

\* SearchTool._search_pairs, inside its try block
SearchPairsBody(search_query, http) ==
    IF Falsy(search_query)
    THEN Invalid("search_query is required")
    ELSE Fetch(Url("/latest/dex/search", <<search_query.text>>), http)

\* DexScreenAPI.get_pairs_by_chain_and_address
GetPairsByChainAndAddress(chain_id, pair_id, http) ==
    IF Falsy(chain_id) \/ Falsy(pair_id)
    THEN Invalid("Both chain_id and pair_id are required")
    ELSE Fetch(Url("/latest/dex/pairs", <<chain_id.text, pair_id.text>>), http)

\* DexScreenAPI.get_pairs_by_token_addresses
GetPairsByTokenAddresses(token_addresses, http) ==
    IF Falsy(token_addresses)
    THEN Invalid("Token addresses are required")
    ELSE IF Len(AddressesList(token_addresses.text)) > MaxAddresses
    THEN Invalid("Maximum of 30 token addresses allowed")
    ELSE Fetch(Url("/latest/dex/tokens",
                   <<Join(AddressesList(token_addresses.text), <<",">>)>>), http)

\* DexScreenAPI.search_pairs
SearchPairs(search_query, http) ==
    IF Falsy(search_query)
    THEN Invalid("Search query is required")
    ELSE Fetch(Url("/latest/dex/search", <<search_query.text>>), http)

\* DexScreenAPI.get_latest_token_profiles
GetLatestTokenProfiles(http) ==
    Fetch(Url("/token-profiles/latest/v1", <<>>), http)

\* DexScreenAPI.build, inside its try block
BuildBody(chain_id, pair_id, token_addresses, search_query, http) ==
    IF ~Falsy(chain_id) /\ ~Falsy(pair_id)
    THEN GetPairsByChainAndAddress(chain_id, pair_id, http)
    ELSE IF ~Falsy(token_addresses)
    THEN GetPairsByTokenAddresses(token_addresses, http)
    ELSE IF ~Falsy(search_query)
    THEN SearchPairs(search_query, http)
    ELSE GetLatestTokenProfiles(http)

\* the call of a component as its caller sees it: the inputs, the requests
\* issued, and the Data returned or the exception raised (with the status
\* text that the component keeps)
DexCall(component, method, c, p, a, q, exception, prefix, sets_status, body) ==
    [component |-> component, method |-> method, chain_id |-> c,
     pair_id |-> p, token_addresses |-> a, search_query |-> q,
     requests |-> body.requests, http |-> body.http,
     kind |-> IF body.ok THEN "data" ELSE exception,
     message |-> IF body.ok THEN <<>> ELSE <<prefix, body.cause>>,
     status |-> IF ~body.ok /\ sets_status THEN <<prefix, body.cause>> ELSE <<>>]

NoDexCall ==
    [component |-> "none", method |-> "", chain_id |-> Absent,
     pair_id |-> Absent, token_addresses |-> Absent, search_query |-> Absent,
     requests |-> <<>>, http |-> "none", kind |-> "none", message |-> <<>>,
     status |-> <<>>]

\* ------------------------------------------------------------ JSON values
\* what response.json() decodes to, and the response models that some of
\* the endpoint methods wrap it in
JsonNull == [t |-> "null"]
JsonBool(b) == [t |-> "bool", b |-> b]
JsonNum(n) == [t |-> "num", n |-> n]
JsonStr(s) == [t |-> "str", s |-> s]
JsonList(items) == [t |-> "list", items |-> items]
\* a dict: d is a function from its keys
JsonDict(d) == [t |-> "dict", d |-> d]
EmptyDict == JsonDict(<<>>)
\* TokenStatsResponse(**json), TagWalletCountResponse(**json)
ResponseModel(d) == [t |-> "model", d |-> d]

\* isinstance(v, dict)
IsDict(v) == v.t = "dict"

\* bool(v)
Truthy(v) ==
    CASE v.t = "null" -> FALSE
      [] v.t = "bool" -> v.b
      [] v.t = "num" -> v.n # 0
      [] v.t = "str" -> v.s # ""
      [] v.t = "list" -> v.items # <<>>
      [] v.t = "dict" -> DOMAIN v.d # {}
      [] OTHER -> TRUE

\* key in v, for a dict v
HasKey(v, key) == key \in DOMAIN v.d

\* v.get(key, default), for a dict v
Get(v, key, default) == IF key \in DOMAIN v.d THEN v.d[key] ELSE default

\* f"{v}"
Text(v) ==
    CASE v.t = "null" -> "None"
      [] v.t = "bool" -> IF v.b THEN "True" ELSE "False"
      [] v.t = "num" -> ToString(v.n)
      [] v.t = "str" -> v.s
      [] v.t = "list" -> IF v.items = <<>> THEN "[]" ELSE "[...]"
      [] v.t = "dict" -> IF DOMAIN v.d = {} THEN "{}" ELSE "{...}"
      [] OTHER -> "<object>"

\* -------------------------------------------------- technical indicators
\* prices are whole numbers of the smallest price unit; the quotients of
\* the code are exact fractions num/den with den > 0
Frac(num, den) == [num |-> num, den |-> den]
Whole(n) == Frac(n, 1)
FracSub(a, b) == Frac(a.num * b.den - b.num * a.den, a.den * b.den)
FracAdd(a, b) == Frac(a.num * b.den + b.num * a.den, a.den * b.den)
\* a / b for b > 0
FracDiv(a, b) == Frac(a.num * b.den, a.den * b.num)
FracEq(a, b) == a.num * b.den = b.num * a.den
FracLe(a, b) == a.num * b.den <= b.num * a.den

\* sum(xs)
RECURSIVE Sum(_)
Sum(xs) == IF xs = <<>> THEN 0 ELSE Head(xs) + Sum(Tail(xs))

\* xs[-n:]
LastN(xs, n) == IF Len(xs) <= n THEN xs ELSE SubSeq(xs, Len(xs) - n + 1, Len(xs))

\* xs[:n]
FirstN(xs, n) == IF Len(xs) <= n THEN xs ELSE SubSeq(xs, 1, n)

\* the elements of xs
Range(xs) == {xs[i] : i \in 1..Len(xs)}

\* sorted(set(xs))
RECURSIVE SortedSet(_)
SortedSet(S) ==
    IF S = {} THEN <<>>
    ELSE LET m == CHOOSE x \in S : \A y \in S : x <= y
         IN  <<m>> \o SortedSet(S \ {m})

\* the elements of xs at the positions in P, in the order of xs
RECURSIVE Pick(_, _, _)
Pick(xs, P, i) ==
    IF i > Len(xs) THEN <<>>
    ELSE IF i \in P THEN <<xs[i]>> \o Pick(xs, P, i + 1)
    ELSE Pick(xs, P, i + 1)

\* window of find_swing_points
SwingWindow == 5
\* periods of calculate_rsi
RsiPeriods == 14

\* find_swing_points(prices, window): supports and resistances; position i
\* of the code's 0-based list is position i + 1 here
find_swing_points(prices, window) ==
    LET Inner == (window + 1)..(Len(prices) - window)
        Around(i) == (i - window)..(i + window)
        lowest  == {i \in Inner : \A j \in Around(i) : prices[i] <= prices[j]}
        highest == {i \in Inner : \A j \in Around(i) : prices[i] >= prices[j]}
    IN  <<Pick(prices, lowest, 1), Pick(prices, highest, 1)>>

\* calculate_rsi that is neutral where there is no loss to divide by
calculate_rsi_NeutralWithoutLoss(prices, periods) ==
    IF Len(prices) < periods + 1 THEN Whole(50)
    ELSE LET deltas == [i \in 1..(Len(prices) - 1) |-> prices[i + 1] - prices[i]]
             gains  == [i \in DOMAIN deltas |-> IF deltas[i] > 0 THEN deltas[i] ELSE 0]
             losses == [i \in DOMAIN deltas |-> IF deltas[i] < 0 THEN -deltas[i] ELSE 0]
             avg_gain == Frac(Sum(LastN(gains, periods)), periods)
             avg_loss == Frac(Sum(LastN(losses, periods)), periods)
         IN  IF FracEq(avg_loss, Whole(0)) THEN Whole(50)
             ELSE LET rs == FracDiv(avg_gain, avg_loss)
                  IN  FracSub(Whole(100), FracDiv(Whole(100), FracAdd(Whole(1), rs)))

\* calculate_rsi with the first periods changes averaged, not the last
calculate_rsi_FirstChanges(prices, periods) ==
    IF Len(prices) < periods + 1 THEN Whole(50)
    ELSE LET deltas == [i \in 1..(Len(prices) - 1) |-> prices[i + 1] - prices[i]]
             gains  == [i \in DOMAIN deltas |-> IF deltas[i] > 0 THEN deltas[i] ELSE 0]
             losses == [i \in DOMAIN deltas |-> IF deltas[i] < 0 THEN -deltas[i] ELSE 0]
             avg_gain == Frac(Sum(FirstN(gains, periods)), periods)
             avg_loss == Frac(Sum(FirstN(losses, periods)), periods)
         IN  IF FracEq(avg_loss, Whole(0)) THEN Whole(100)
             ELSE LET rs == FracDiv(avg_gain, avg_loss)
                  IN  FracSub(Whole(100), FracDiv(Whole(100), FracAdd(Whole(1), rs)))

\* calculate_rsi(prices, periods)
calculate_rsi(prices, periods) ==
    IF Len(prices) < periods + 1 THEN Whole(50)
    ELSE LET deltas == [i \in 1..(Len(prices) - 1) |-> prices[i + 1] - prices[i]]
             gains  == [i \in DOMAIN deltas |-> IF deltas[i] > 0 THEN deltas[i] ELSE 0]
             losses == [i \in DOMAIN deltas |-> IF deltas[i] < 0 THEN -deltas[i] ELSE 0]
             avg_gain == Frac(Sum(LastN(gains, periods)), periods)
             avg_loss == Frac(Sum(LastN(losses, periods)), periods)
         IN  IF FracEq(avg_loss, Whole(0)) THEN Whole(100)
             ELSE LET rs == FracDiv(avg_gain, avg_loss)
                  IN  FracSub(Whole(100), FracDiv(Whole(100), FracAdd(Whole(1), rs)))

\* calculate_trend(prices): the sign of the slope of the regression line
calculate_trend(prices) ==
    IF Len(prices) < 2 THEN "Neutral"
    ELSE LET n   == Len(prices)
             x   == [i \in 1..n |-> i - 1]
             xy  == [i \in 1..n |-> x[i] * prices[i]]
             xx  == [i \in 1..n |-> x[i] * x[i]]
             slope == Frac(n * Sum(xy) - Sum(x) * Sum(prices),
                           n * Sum(xx) - Sum(x) * Sum(x))
         IN  IF slope.num > 0 THEN "Uptrend ^"
             ELSE IF slope.num < 0 THEN "Downtrend v" ELSE "Neutral <->"

\* find_patterns(candles): the double top and the double bottom of the last
\* 20 candles, and the flag of the trend of the last 10 closes
find_patterns(candles) ==
    LET n      == Len(candles)
        last20 == LastN(candles, 20)
        highs  == [i \in 1..Len(last20) |-> last20[i].high]
        lows   == [i \in 1..Len(last20) |-> last20[i].low]
        max(xs) == CHOOSE x \in Range(xs) : \A y \in Range(xs) : x >= y
        min(xs) == CHOOSE x \in Range(xs) : \A y \in Range(xs) : x <= y
        last10 == LastN(candles, 10)
        recent_trend == calculate_trend([i \in 1..Len(last10) |-> last10[i].close])
    IN  (IF n > 20 /\ 100 * (max(FirstN(highs, 10)) - max(LastN(highs, 10))) < max(highs)
         THEN <<"Potential Double Top">> ELSE <<>>)
        \o (IF n > 20 /\ 100 * (min(LastN(lows, 10)) - min(FirstN(lows, 10))) < min(lows)
            THEN <<"Potential Double Bottom">> ELSE <<>>)
        \o (IF n > 10 /\ recent_trend # "Neutral"
            THEN <<"Potential "
                     \o (IF recent_trend = "Uptrend ^" THEN "Bull" ELSE "Bear")
                     \o " Flag">>
            ELSE <<>>)

\* GmGnClient._calculate_technical_indicators, for candles whose fields are
\* numbers: the trend, the patterns, the RSI and the support and resistance
\* levels
NoIndicators ==
    [trend |-> "", patterns |-> <<>>, rsi |-> Whole(0), support_levels |-> <<>>,
     resistance_levels |-> <<>>, computed |-> FALSE]
CalculateTechnicalIndicators(candles) ==
    IF candles = <<>> THEN NoIndicators
    ELSE LET closes == [i \in 1..Len(candles) |-> candles[i].close]
             highs  == [i \in 1..Len(candles) |-> candles[i].high]
             lows   == [i \in 1..Len(candles) |-> candles[i].low]
             supports    == find_swing_points(lows, SwingWindow)
             resistances == find_swing_points(highs, SwingWindow)
         IN  [trend |-> calculate_trend(closes),
              patterns |-> find_patterns(candles),
              rsi |-> calculate_rsi(closes, RsiPeriods),
              support_levels |-> SortedSet(Range(supports[1])),
              resistance_levels |-> SortedSet(Range(resistances[1])),
              computed |-> TRUE]

\* ------------------------------------------------------ report sections
\* what a formatter comes to: the lines of its text, or an exception
Returns(lines) == [raised |-> FALSE, error |-> "", lines |-> lines]
Raises(error) == [raised |-> TRUE, error |-> error, lines |-> <<>>]

\* the numerals that the text of a number is parsed from
Numerals == 0..9
IsNumeral(s) == \E n \in Numerals : ToString(n) = s
ParseNumeral(s) == CHOOSE n \in Numerals : ToString(n) = s

\* float(v) and int(v) succeed
IsNumber(v) ==
    \/ v.t \in {"num", "bool"}
    \/ v.t = "str" /\ IsNumeral(v.s)
\* float(v), int(v)
Number(v) ==
    CASE v.t = "num" -> v.n
      [] v.t = "bool" -> IF v.b THEN 1 ELSE 0
      [] OTHER -> ParseNumeral(v.s)

\* f"{x:.2f}" of a fraction: the nearest number of hundredths
Hundredths(f) == (2 * 100 * f.num + f.den) \div (2 * f.den)
Fixed2(f) == ToString(Hundredths(f)) \o "/100"

\* ", ".join(texts)
RECURSIVE JoinText(_, _)
JoinText(texts, sep) ==
    IF texts = <<>> THEN ""
    ELSE IF Len(texts) = 1 THEN texts[1]
    ELSE texts[1] \o sep \o JoinText(Tail(texts), sep)

SecondsPerDay == 86400

\* GmGnClient._format_time(timestamp, format) when the clock reads now
FormatTime(timestamp, format, now) ==
    IF timestamp = 0 THEN "N/A"
    ELSE IF format = "R"
    THEN LET diff    == now - timestamp
             days    == diff \div SecondsPerDay
             seconds == diff % SecondsPerDay
             hours   == seconds \div 3600
             minutes == (seconds % 3600) \div 60
         IN  IF days > 0 THEN ToString(days) \o " days ago"
             ELSE IF hours > 0 THEN ToString(hours) \o " hours ago"
             ELSE IF minutes > 0 THEN ToString(minutes) \o " minutes ago"
             ELSE "just now"
    ELSE "local time of " \o ToString(timestamp)

CandleKeys == {"time", "open", "high", "low", "close", "volume"}

\* 'list' in kline_data raises
MembershipRaises(v) == v.t \in {"null", "num", "bool", "model"}
\* key in v, for any v on which the test does not raise
In(key, v) ==
    CASE v.t = "dict" -> key \in DOMAIN v.d
      [] v.t = "list" -> \E i \in 1..Len(v.items) :
                            v.items[i].t = "str" /\ v.items[i].s = key
      [] OTHER -> v.s = key

\* what the loop over candles yields, item by item: the candles of a list,
\* the keys of a dict, the characters of a text
Iterable(v) == v.t \in {"list", "dict", "str"}
Items(v) == IF v.t = "list" THEN v.items ELSE <<JsonStr("?")>>

\* the candle has all six fields (the test raises on a candle that is no
\* container)
HasAllFields(candle) == \A k \in CandleKeys : In(k, candle)

\* the conversion of a candle that has all six fields
Convertible(candle) == \A k \in CandleKeys : IsNumber(candle.d[k])
ProcessedCandle(candle) ==
    [time |-> Number(candle.d["time"]) \div 1000,
     open |-> Number(candle.d["open"]), high |-> Number(candle.d["high"]),
     low |-> Number(candle.d["low"]), close |-> Number(candle.d["close"]),
     volume |-> Number(candle.d["volume"])]

RECURSIVE ProcessedCandles(_)
ProcessedCandles(items) ==
    IF items = <<>> THEN <<>>
    ELSE IF HasAllFields(Head(items))
    THEN <<ProcessedCandle(Head(items))>> \o ProcessedCandles(Tail(items))
    ELSE ProcessedCandles(Tail(items))

MaxOf(xs) == CHOOSE x \in Range(xs) : \A y \in Range(xs) : x >= y
MinOf(xs) == CHOOSE x \in Range(xs) : \A y \in Range(xs) : x <= y

\* the analysis that _format_kline_data writes for its processed candles,
\* but for the lines of the Fibonacci levels
KlineAnalysis(header, processed_candles, now) ==
    LET n             == Len(processed_candles)
        current_price == processed_candles[n].close
        open_price    == processed_candles[1].open
        highest_price == MaxOf([i \in 1..n |-> processed_candles[i].high])
        lowest_price  == MinOf([i \in 1..n |-> processed_candles[i].low])
        total_volume  == Sum([i \in 1..n |-> processed_candles[i].volume])
        indicators    == CalculateTechnicalIndicators(processed_candles)
        price_change  == Frac((current_price - open_price) * 100, open_price)
        up_candles    == Cardinality({i \in 1..n : processed_candles[i].close > processed_candles[i].open})
        down_candles  == Cardinality({i \in 1..n : processed_candles[i].close < processed_candles[i].open})
        Levels(ls)    == JoinText([i \in 1..Len(FirstN(ls, 3)) |-> "$" \o ToString(ls[i])], ", ")
        Row(c)        == FormatTime(c.time, "F", now) \o " | $" \o ToString(c.open)
                           \o " | $" \o ToString(c.high) \o " | $" \o ToString(c.low)
                           \o " | $" \o ToString(c.close) \o " | " \o ToString(c.volume)
                           \o " | " \o (IF c.close >= c.open THEN "green" ELSE "red")
    IN  <<header,
          "#### Key Metrics",
          "- **Current Price**: $" \o ToString(current_price)
              \o " (" \o FormatTime(processed_candles[n].time, "R", now) \o ")",
          "- **Period Open**: $" \o ToString(open_price)
              \o " (" \o FormatTime(processed_candles[1].time, "R", now) \o ")",
          "- **Price Change**: " \o Fixed2(price_change) \o "%",
          "- **Highest Price**: $" \o ToString(highest_price),
          "- **Lowest Price**: $" \o ToString(lowest_price),
          "- **Total Volume**: $" \o ToString(total_volume),
          "",
          "#### Technical Analysis",
          "- **Trend Direction**: " \o indicators.trend,
          "- **RSI (14)**: " \o Fixed2(indicators.rsi) \o " ("
              \o (IF ~FracLe(indicators.rsi, Whole(70)) THEN "Overbought"
                  ELSE IF ~FracLe(Whole(30), indicators.rsi) THEN "Oversold"
                  ELSE "Neutral") \o ")",
          "- **Identified Patterns**: "
              \o (IF indicators.patterns # <<>> THEN JoinText(indicators.patterns, ", ")
                  ELSE "No clear patterns"),
          "",
          "#### Support & Resistance",
          "- **Key Support Levels**: " \o Levels(indicators.support_levels),
          "- **Key Resistance Levels**: " \o Levels(indicators.resistance_levels),
          "",
          "#### Market Analysis",
          "- **Time Period**: " \o FormatTime(processed_candles[1].time, "F", now) \o " to "
              \o FormatTime(processed_candles[n].time, "F", now),
          "- **Number of Candles**: " \o ToString(n),
          "- **Upward Movements**: " \o ToString(up_candles),
          "- **Downward Movements**: " \o ToString(down_candles),
          "",
          "#### Price Volatility",
          "- **Price Range**: $" \o ToString(highest_price - lowest_price),
          "- **High-Low Spread**: "
              \o Fixed2(Frac((highest_price - lowest_price) * 100, lowest_price)) \o "%",
          "- **Average Volume**: $" \o Fixed2(Frac(total_volume, n)),
          "",
          "#### OHLC Data">>
        \o [i \in 1..n |-> Row(processed_candles[i])]

\* FormatKlineData whose price change and spread are computed outside the
\* try block
FormatKlineData_DividesOutsideTry(kline_data, timeframe, now) ==
    LET header == "### Price Chart Analysis (" \o timeframe \o ")"
        Sentence(s) == Returns(<<header, s>>)
    IN  IF ~Truthy(kline_data) THEN Sentence("No price data available.")
        ELSE IF MembershipRaises(kline_data) THEN Raises("TypeError")
        ELSE IF ~In("list", kline_data) THEN Sentence("No price data available.")
        ELSE IF ~IsDict(kline_data) THEN Raises("AttributeError")
        ELSE LET candles == Get(kline_data, "list", JsonList(<<>>))
             IN  IF ~Truthy(candles) THEN Sentence("No candlestick data available.")
                 ELSE IF ~Iterable(candles)
                 THEN Sentence("Error processing price data.")
                 ELSE IF \E i \in 1..Len(Items(candles)) :
                            \/ MembershipRaises(Items(candles)[i])
                            \/ /\ HasAllFields(Items(candles)[i])
                               /\ ~Convertible(Items(candles)[i])
                 THEN Sentence("Error processing price data.")
                 ELSE LET processed_candles == ProcessedCandles(Items(candles))
                      IN  IF processed_candles = <<>>
                          THEN Sentence("Invalid candle data format.")
                          ELSE IF processed_candles[1].open = 0
                                  \/ MinOf([i \in 1..Len(processed_candles) |->
                                               processed_candles[i].low]) = 0
                          THEN Raises("ZeroDivisionError")
                          ELSE Returns(KlineAnalysis(header, processed_candles, now))

\* GmGnClient._format_kline_data(kline_data, timeframe) when the clock
\* reads now
FormatKlineData(kline_data, timeframe, now) ==
    LET header == "### Price Chart Analysis (" \o timeframe \o ")"
        Sentence(s) == Returns(<<header, s>>)
    IN  IF ~Truthy(kline_data) THEN Sentence("No price data available.")
        ELSE IF MembershipRaises(kline_data) THEN Raises("TypeError")
        ELSE IF ~In("list", kline_data) THEN Sentence("No price data available.")
        ELSE IF ~IsDict(kline_data) THEN Raises("AttributeError")
        ELSE LET candles == Get(kline_data, "list", JsonList(<<>>))
             IN  IF ~Truthy(candles) THEN Sentence("No candlestick data available.")
                 ELSE IF ~Iterable(candles)
                 THEN Sentence("Error processing price data.")
                 ELSE IF \E i \in 1..Len(Items(candles)) :
                            \/ MembershipRaises(Items(candles)[i])
                            \/ /\ HasAllFields(Items(candles)[i])
                               /\ ~Convertible(Items(candles)[i])
                 THEN Sentence("Error processing price data.")
                 ELSE LET processed_candles == ProcessedCandles(Items(candles))
                      IN  IF processed_candles = <<>>
                          THEN Sentence("Invalid candle data format.")
                          ELSE IF processed_candles[1].open = 0
                                  \/ MinOf([i \in 1..Len(processed_candles) |->
                                               processed_candles[i].low]) = 0
                          THEN Sentence("Error processing price data.")
                          ELSE Returns(KlineAnalysis(header, processed_candles, now))

\* the parts of a line: literal text, the text of a field of the record,
\* or one of two texts that a field of the record chooses
Lit(s) == [k |-> "lit", s |-> s]
Val(key, default) == [k |-> "val", key |-> key, default |-> default]
Flag(key, yes, no) == [k |-> "flag", key |-> key, yes |-> yes, no |-> no]
IsOne(key, yes, no) == [k |-> "is1", key |-> key, yes |-> yes, no |-> no]

PartText(v, part) ==
    CASE part.k = "lit" -> part.s
      [] part.k = "val" -> Text(Get(v, part.key, part.default))
      [] part.k = "flag" ->
            IF Truthy(Get(v, part.key, JsonNull)) THEN part.yes ELSE part.no
      [] OTHER ->
            LET x == Get(v, part.key, JsonNull)
            IN  IF (x.t = "num" /\ x.n = 1) \/ (x.t = "bool" /\ x.b)
                THEN part.yes ELSE part.no

RECURSIVE LineText(_, _)
LineText(v, parts) ==
    IF parts = <<>> THEN "" ELSE PartText(v, Head(parts)) \o LineText(v, Tail(parts))

NA == JsonStr("N/A")
Zero == JsonNum(0)
\* "- **label**: {v.get(key, default)}" and its variants
Field(label, key, default) == <<Lit("- **" \o label \o "**: "), Val(key, default)>>
FieldWith(label, pre, key, default, post) ==
    <<Lit("- **" \o label \o "**: " \o pre), Val(key, default), Lit(post)>>

\* an f-string whose every field is v.get(...): it raises when v is no dict
FormatLines(v, heading, lines) ==
    IF ~IsDict(v) THEN Raises("AttributeError")
    ELSE Returns(<<heading>> \o [i \in 1..Len(lines) |-> LineText(v, lines[i])])

\* GmGnClient._format_token_info
FormatTokenInfo(token_info) ==
    FormatLines(token_info, "### Basic Token Information",
        <<Field("Symbol", "symbol", NA),
          Field("Name", "name", NA),
          Field("Address", "address", NA),
          Field("Decimals", "decimals", NA),
          Field("Logo", "logo", NA),
          Field("Biggest Pool", "biggest_pool_address", NA),
          FieldWith("Open Timestamp", "<t:", "open_timestamp", Zero, ":F>"),
          FieldWith("Creation Timestamp", "<t:", "creation_timestamp", Zero, ":F>"),
          Field("Holder Count", "holder_count", NA),
          Field("Circulating Supply", "circulating_supply", NA),
          Field("Total Supply", "total_supply", NA),
          Field("Max Supply", "max_supply", NA),
          FieldWith("Liquidity", "", "liquidity", NA, " SOL")>>)

\* GmGnClient._format_pool_info
FormatPoolInfo(pool_info) ==
    FormatLines(pool_info, "### Pool Information",
        <<Field("Pool Address", "pool_address", NA),
          <<Lit("- **Quote Token**: "), Val("quote_symbol", NA), Lit(" ("),
            Val("quote_address", NA), Lit(")")>>,
          FieldWith("Current Liquidity", "", "liquidity", NA, " SOL"),
          FieldWith("Initial Liquidity", "", "initial_liquidity", NA, " SOL"),
          Field("Base Reserve", "base_reserve", NA),
          Field("Quote Reserve", "quote_reserve", NA),
          Field("Initial Base Reserve", "initial_base_reserve", NA),
          Field("Initial Quote Reserve", "initial_quote_reserve", NA),
          FieldWith("Creation Time", "<t:", "creation_timestamp", Zero, ":F>"),
          Field("Base Reserve Value", "base_reserve_value", NA),
          Field("Quote Reserve Value", "quote_reserve_value", NA),
          Field("Quote Vault", "quote_vault_address", NA),
          Field("Base Vault", "base_vault_address", NA),
          Field("Creator", "creator", NA)>>)

\* GmGnClient._format_stats
FormatStats(stats) ==
    FormatLines(stats, "### Trading Statistics",
        <<Field("Signal Count", "signal_count", Zero),
          Field("Degen Call Count", "degen_call_count", Zero),
          Field("Top Rat Trader Count", "top_rat_trader_count", Zero),
          Field("Smart Degen Count", "top_smart_degen_count", Zero),
          Field("Fresh Wallet Count", "top_fresh_wallet_count", Zero),
          FieldWith("Rat Trader Amount %", "", "top_rat_trader_amount_percentage", Zero, "%"),
          Field("Smart Degen Trader Count", "top_trader_smart_degen_count", Zero),
          Field("Fresh Wallet Trader Count", "top_trader_fresh_wallet_count", Zero),
          Field("Bluechip Owner Count", "bluechip_owner_count", Zero),
          FieldWith("Bluechip Owner %", "", "bluechip_owner_percentage", Zero, "%")>>)

\* "\n  ".join(history or ['No changes']) raises
JoinRaises(history) ==
    /\ Truthy(history)
    /\ \/ history.t \in {"num", "bool", "model"}
       \/ /\ history.t = "list"
          /\ \E i \in 1..Len(history.items) : history.items[i].t # "str"
\* the texts that the join puts one on a line
JoinedItems(history) ==
    IF ~Truthy(history) THEN <<"No changes">>
    ELSE IF history.t = "list" THEN [i \in 1..Len(history.items) |-> history.items[i].s]
    ELSE IF history.t = "str" THEN <<history.s>>
    ELSE <<"?">>

\* GmGnClient._format_dev_info
FormatDevInfo(dev_info) ==
    IF ~IsDict(dev_info) THEN Raises("AttributeError")
    ELSE LET history == Get(dev_info, "twitter_name_change_history", JsonList(<<>>))
             fields  == FormatLines(dev_info, "### Developer Information",
                <<Field("Creator Address", "creator_address", NA),
                  Field("Creator Balance", "creator_token_balance", NA),
                  Field("Creator Status", "creator_token_status", NA),
                  Field("Top 10 Holder Rate", "top_10_holder_rate", NA),
                  Field("DexScr Ad", "dexscr_ad", Zero),
                  Field("DexScr Update Link", "dexscr_update_link", Zero),
                  Field("CTO Flag", "cto_flag", Zero),
                  <<Lit("- **Twitter Name History**:")>> >>)
         IN  IF JoinRaises(history) THEN Raises("TypeError")
             ELSE Returns(fields.lines
                    \o [i \in 1..Len(JoinedItems(history)) |->
                            "  " \o JoinedItems(history)[i]])

\* GmGnClient._format_security_info
FormatSecurityInfo(security_info) ==
    FormatLines(security_info, "### Security Information",
        <<<<Lit("- **Alert Status**: "), Flag("is_show_alert", "Warning", "Safe")>>,
          Field("Top 10 Holder Rate", "top_10_holder_rate", NA),
          <<Lit("- **Mint Authority Renounced**: "),
            Flag("renounced_mint", "Yes", "No")>>,
          <<Lit("- **Freeze Authority Renounced**: "),
            Flag("renounced_freeze_account", "Yes", "No")>>,
          Field("Burn Ratio", "burn_ratio", NA),
          Field("Burn Status", "burn_status", NA),
          Field("Dev Token Burn Amount", "dev_token_burn_amount", NA),
          Field("Dev Token Burn Ratio", "dev_token_burn_ratio", NA)>>)

\* GmGnClient._format_launchpad_info
FormatLaunchpadInfo(launchpad_info) ==
    IF ~IsDict(launchpad_info) THEN Raises("AttributeError")
    ELSE LET progress == Get(launchpad_info, "launchpad_progress", Zero)
         IN  IF ~IsNumber(progress)
             THEN Raises(IF progress.t = "str" THEN "ValueError" ELSE "TypeError")
             ELSE FormatLines(launchpad_info, "### Launchpad Information",
                    <<Field("Platform", "launchpad", NA),
                      Field("Status", "launchpad_status", NA),
                      <<Lit("- **Progress**: " \o Fixed2(Whole(Number(progress) * 100))
                                \o "%")>>,
                      Field("Description", "description", NA)>>)

\* GmGnClient._format_links
FormatLinks(links) ==
    FormatLines(links, "### Token Links",
        <<Field("GMGN", "gmgn", NA),
          Field("GeckoTerminal", "geckoterminal", NA),
          Field("Website", "website", NA),
          Field("Twitter", "twitter_username", NA),
          Field("Telegram", "telegram", NA),
          Field("Discord", "discord", NA),
          Field("GitHub", "github", NA),
          Field("Medium", "medium", NA),
          Field("Reddit", "reddit", NA),
          Field("YouTube", "youtube", NA),
          Field("TikTok", "tiktok", NA),
          Field("Instagram", "instagram", NA),
          Field("LinkedIn", "linkedin", NA),
          Field("Facebook", "facebook", NA),
          Field("BitBucket", "bitbucket", NA),
          Field("Description", "description", NA),
          <<Lit("- **Verification Status**: "),
            IsOne("verify_status", "Verified", "Unverified")>> >>)

\* GmGnClient._format_wallet_analysis
FormatWalletAnalysis(wallet_count) ==
    FormatLines(wallet_count, "### Wallet Analysis",
        <<Field("Smart Wallets", "smart_wallets", Zero),
          Field("Fresh Wallets", "fresh_wallets", Zero),
          Field("Renowned Wallets", "renowned_wallets", Zero),
          Field("Creator Wallets", "creator_wallets", Zero),
          Field("Sniper Wallets", "sniper_wallets", Zero),
          Field("Rat Trader Wallets", "rat_trader_wallets", Zero),
          Field("Following Wallets", "following_wallets", Zero),
          Field("Whale Wallets", "whale_wallets", Zero),
          Field("Top Wallets", "top_wallets", Zero)>>)

\* safe_float(value) of _format_recent_trades
SafeFloat(value) == IF Truthy(value) /\ IsNumber(value) THEN Number(value) ELSE 0

\* the try block of _format_recent_trades runs to its end for this trade
TradeFormats(trade) ==
    /\ IsDict(trade)
    /\ Get(trade, "maker", JsonStr("")).t \in {"str", "list"}
    /\ Get(trade, "event", JsonStr("unknown")).t = "str"
    /\ LET maker_tags == Get(trade, "maker_tags", JsonList(<<>>))
           token_tags == Get(trade, "maker_token_tags", JsonList(<<>>))
       IN  /\ maker_tags.t = "list" /\ token_tags.t = "list"
           /\ \A x \in Range(maker_tags.items \o token_tags.items) :
                 Truthy(x) => x.t = "str"

\* filter(None, tags)
RECURSIVE TruthyTexts(_)
TruthyTexts(items) ==
    IF items = <<>> THEN <<>>
    ELSE IF Truthy(Head(items)) THEN <<Head(items).s>> \o TruthyTexts(Tail(items))
    ELSE TruthyTexts(Tail(items))

TradeLines(trade) ==
    LET tags == TruthyTexts(Get(trade, "maker_tags", JsonList(<<>>)).items
                            \o Get(trade, "maker_token_tags", JsonList(<<>>)).items)
    IN  <<"- **upper(" \o Get(trade, "event", JsonStr("unknown")).s \o ")** by "
              \o Text(Get(trade, "maker", JsonStr(""))) \o "...",
          "  - Time: <t:" \o Text(Get(trade, "timestamp", Zero)) \o ":R>",
          "  - Amount: $" \o ToString(SafeFloat(Get(trade, "amount_usd", JsonNull)))
              \o " (" \o ToString(SafeFloat(Get(trade, "base_amount", JsonNull)))
              \o " tokens for " \o ToString(SafeFloat(Get(trade, "quote_amount", JsonNull)))
              \o " " \o Text(Get(trade, "quote_symbol", JsonStr("SOL"))) \o ")",
          "  - Price: $" \o ToString(SafeFloat(Get(trade, "price_usd", JsonNull)))
              \o " per token",
          "  - Tags: " \o (IF tags = <<>> THEN "No tags" ELSE JoinText(tags, ", "))>>

RECURSIVE AllTradeLines(_)
AllTradeLines(items) ==
    IF items = <<>> THEN <<>>
    ELSE IF TradeFormats(Head(items))
    THEN TradeLines(Head(items)) \o AllTradeLines(Tail(items))
    ELSE AllTradeLines(Tail(items))

\* GmGnClient._format_recent_trades
FormatRecentTrades(trades) ==
    IF ~Truthy(trades)
    THEN Returns(<<"### Recent Trades", "No recent trades found.">>)
    ELSE IF trades.t \notin {"list", "str"} THEN Raises("TypeError")
    ELSE Returns(<<"### Recent Trades">>
                 \o AllTradeLines(FirstN(Items(trades), 10)))

\* GmGnClient._format_rug_analysis
FormatRugAnalysis(rug_data) ==
    IF ~Truthy(rug_data)
    THEN Returns(<<"### Risk Assessment", "No rug analysis data available.">>)
    ELSE IF ~IsDict(rug_data) THEN Raises("AttributeError")
    ELSE IF Get(rug_data, "rug_ratio", JsonNull).t = "null"
    THEN Returns(<<"### Risk Assessment", "No signs of rug pull detected.">>)
    ELSE FormatLines(rug_data, "### Risk Assessment",
            <<Field("Rug Pull Ratio", "rug_ratio", JsonNull),
              <<Lit("- **Affected Holders**: "), Val("holder_rugged_num", JsonNull),
                Lit("/"), Val("holder_token_num", JsonNull)>>,
              Field("Token Name", "name", NA),
              Field("Symbol", "symbol", NA)>>)

\* GmGnClient._format_top_buyers
FormatTopBuyers(buyers_data) ==
    LET NoData == Returns(<<"### Top Buyers Analysis", "No top buyers data available.">>)
    IN  IF ~Truthy(buyers_data) THEN NoData
        ELSE IF MembershipRaises(buyers_data) THEN Raises("TypeError")
        ELSE IF ~In("holders", buyers_data) THEN NoData
        ELSE IF ~IsDict(buyers_data) THEN Raises("AttributeError")
        ELSE LET holders == Get(buyers_data, "holders", EmptyDict)
             IN  IF ~IsDict(holders) THEN Raises("AttributeError")
                 ELSE LET status == Get(holders, "statusNow", EmptyDict)
                          counts == FormatLines(status, "- **Current Status**:",
                            <<<<Lit("  - Still Holding: "), Val("hold", Zero)>>,
                              <<Lit("  - Bought More: "), Val("bought_more", Zero)>>,
                              <<Lit("  - Partially Sold: "), Val("sold_part", Zero)>>,
                              <<Lit("  - Fully Sold: "), Val("sold", Zero)>>,
                              <<Lit("  - Buy Rate: "), Val("bought_rate", NA)>>,
                              <<Lit("  - Holding Rate: "), Val("holding_rate", NA)>>,
                              <<Lit("  - Top 10 Holder Rate: "),
                                Val("top_10_holder_rate", NA)>>>>)
                      IN  IF counts.raised THEN counts
                          ELSE Returns(FormatLines(holders, "### Top Buyers Analysis",
                                  <<Field("Total Holders", "holder_count", Zero)>>).lines
                                       \o counts.lines)

\* ------------------------------------------------------- report assembly
\* the fetch tasks of get_all_token_info_for_markdown, by their position
\* in tasks, which is the position of their record in the unpacking
NumFetches == 13
Fetches == 1..NumFetches
token_info == 1
pool_info == 2
stats == 3
dev_info == 4
security_info == 5
launchpad_info == 6
links == 7
wallet_count == 8
top_buyers == 9
rug_history == 10
trade_history == 11
kline_5m == 12
kline_4h == 13

\* the result that gather holds for a task that raised
FetchRaised == [t |-> "exception"]
\* no result yet
Pending == [t |-> "pending"]

\* result.get('data', {}) if isinstance(result, dict) else {}
Record(result) ==
    IF IsDict(result) THEN Get(result, "data", EmptyDict) ELSE EmptyDict

\* the title of the report
FormatTitle(info) ==
    FormatLines(info, "# Token Analysis Report for "
                        \o Text(Get(IF IsDict(info) THEN info ELSE EmptyDict,
                                    "symbol", JsonStr("Unknown Token"))), <<>>)

\* self._format_recent_trades(trade_history.get('history', []))
FormatTradeHistory(history) ==
    IF ~IsDict(history) THEN Raises("AttributeError")
    ELSE FormatRecentTrades(Get(history, "history", JsonList(<<>>)))

\* the headings that the sections of the report begin with, in the order
\* of sections
Headings ==
    <<"# Token Analysis Report for ", "### Basic Token Information",
      "### Pool Information", "### Security Information",
      "### Developer Information", "### Trading Statistics",
      "### Wallet Analysis", "### Launchpad Information", "### Token Links",
      "## Short-term Analysis (5m)", "### Price Chart Analysis (5m)",
      "## Long-term Analysis (4h)", "### Price Chart Analysis (4h)",
      "### Recent Trades", "### Risk Assessment", "### Top Buyers Analysis">>

\* Sections that leaves out the chart of a kline record that is empty
Sections_OmitsEmptyChart(r, now) ==
    <<FormatTitle(r[token_info]),
      FormatTokenInfo(r[token_info]),
      FormatPoolInfo(r[pool_info]),
      FormatSecurityInfo(r[security_info]),
      FormatDevInfo(r[dev_info]),
      FormatStats(r[stats]),
      FormatWalletAnalysis(r[wallet_count]),
      FormatLaunchpadInfo(r[launchpad_info]),
      FormatLinks(r[links]),
      Returns(<<"## Short-term Analysis (5m)">>)>>
    \o (IF r[kline_5m] = [t |-> "dict", d |-> <<>>] THEN <<>>
        ELSE <<FormatKlineData(r[kline_5m], "5m", now)>>)
    \o <<Returns(<<"## Long-term Analysis (4h)">>)>>
    \o (IF r[kline_4h] = [t |-> "dict", d |-> <<>>] THEN <<>>
        ELSE <<FormatKlineData(r[kline_4h], "4h", now)>>)
    \o <<FormatTradeHistory(r[trade_history]),
         FormatRugAnalysis(r[rug_history]),
         FormatTopBuyers(r[top_buyers])>>

\* sections of get_all_token_info_for_markdown, each as its formatter
\* leaves it, for the records r when the clock reads now
Sections(r, now) ==
    <<FormatTitle(r[token_info]),
      FormatTokenInfo(r[token_info]),
      FormatPoolInfo(r[pool_info]),
      FormatSecurityInfo(r[security_info]),
      FormatDevInfo(r[dev_info]),
      FormatStats(r[stats]),
      FormatWalletAnalysis(r[wallet_count]),
      FormatLaunchpadInfo(r[launchpad_info]),
      FormatLinks(r[links]),
      Returns(<<"## Short-term Analysis (5m)">>),
      FormatKlineData(r[kline_5m], "5m", now),
      Returns(<<"## Long-term Analysis (4h)">>),
      FormatKlineData(r[kline_4h], "4h", now),
      FormatTradeHistory(r[trade_history]),
      FormatRugAnalysis(r[rug_history]),
      FormatTopBuyers(r[top_buyers])>>

\* "\n\n".join(sections), line by line
RECURSIVE JoinSections(_)
JoinSections(sections) ==
    IF sections = <<>> THEN <<>>
    ELSE IF Len(sections) = 1 THEN sections[1]
    ELSE sections[1] \o <<"">> \o JoinSections(Tail(sections))

\* AssembleReport after a gather without return_exceptions: the exception
\* of the first fetch that raised is raised
AssembleReport_RaisesOnFailure(gathered, now) ==
    LET records  == [i \in Fetches |-> Record(gathered[i])]
        sections == Sections(records, now)
        failed   == {k \in 1..Len(sections) : sections[k].raised}
        lines    == [k \in 1..Len(sections) |-> sections[k].lines]
    IN  IF \E i \in Fetches : gathered[i] = [t |-> "exception"]
        THEN [at |-> now, raised |-> TRUE, error |-> "Exception",
              text |-> <<>>, starts |-> <<>>]
        ELSE IF failed # {}
        THEN [at |-> now, raised |-> TRUE,
              error |-> sections[CHOOSE k \in failed : \A m \in failed : k <= m].error,
              text |-> <<>>, starts |-> <<>>]
        ELSE [at |-> now, raised |-> FALSE, error |-> "",
              text |-> JoinSections(lines),
              starts |-> [k \in 1..Len(lines) |->
                            1 + Len(JoinSections(SubSeq(lines, 1, k - 1)))
                              + (IF k > 1 THEN 1 ELSE 0)]]

\* get_all_token_info_for_markdown from the results of gather on: the
\* report it returns, or the exception it raises; text is the report, line
\* by line, and starts are the lines at which its sections begin
AssembleReport(gathered, now) ==
    LET records  == [i \in Fetches |-> Record(gathered[i])]
        sections == Sections(records, now)
        failed   == {k \in 1..Len(sections) : sections[k].raised}
        lines    == [k \in 1..Len(sections) |-> sections[k].lines]
    IN  IF failed # {}
        THEN [at |-> now, raised |-> TRUE,
              error |-> sections[CHOOSE k \in failed : \A m \in failed : k <= m].error,
              text |-> <<>>, starts |-> <<>>]
        ELSE [at |-> now, raised |-> FALSE, error |-> "",
              text |-> JoinSections(lines),
              starts |-> [k \in 1..Len(lines) |->
                            1 + Len(JoinSections(SubSeq(lines, 1, k - 1)))
                              + (IF k > 1 THEN 1 ELSE 0)]]

\* the k-th section of a report that was returned
SectionOf(rep, k) ==
    SubSeq(rep.text, rep.starts[k],
           IF k < Len(rep.starts) THEN rep.starts[k + 1] - 2 ELSE Len(rep.text))

\* ---------------------------------------------------- fetched responses
\* the clock (datetime.now()), in seconds
Epoch == 100000
TickSeconds == 3600

\* a candle of a kline response: time in milliseconds, prices as text
Candle(time, open, high, low, close, volume) ==
    JsonDict([time |-> JsonNum(time), open |-> open, high |-> high,
              low |-> low, close |-> close, volume |-> volume])
Candle1 ==
    Candle((Epoch - 1800) * 1000, JsonStr("2"), JsonStr("4"), JsonStr("1"),
           JsonStr("3"), JsonStr("5"))
Candle2 ==
    Candle((Epoch - 1500) * 1000, JsonStr("3"), JsonStr("5"), JsonStr("2"),
           JsonStr("4"), JsonStr("6"))

Trade1 ==
    JsonDict([timestamp |-> JsonNum(Epoch - 60), event |-> JsonStr("buy"),
              maker |-> JsonStr("Maker1"), amount_usd |-> JsonStr("7"),
              maker_tags |-> JsonList(<<JsonStr("whale")>>)])

\* the 'data' of a well-formed response of each fetch
SampleData(i) ==
    CASE i = token_info ->
            JsonDict([symbol |-> JsonStr("TKN"), address |-> JsonStr("Tok"),
                      holder_count |-> JsonNum(7)])
      [] i = pool_info ->
            JsonDict([pool_address |-> JsonStr("Pool1"), liquidity |-> JsonNum(5)])
      [] i = stats -> JsonDict([signal_count |-> JsonNum(3)])
      [] i = dev_info ->
            JsonDict([creator_address |-> JsonStr("Dev1"),
                      twitter_name_change_history |-> JsonList(<<JsonStr("old")>>)])
      [] i = security_info ->
            JsonDict([is_show_alert |-> JsonBool(TRUE),
                      renounced_mint |-> JsonBool(TRUE)])
      [] i = launchpad_info ->
            JsonDict([launchpad |-> JsonStr("Pump"),
                      launchpad_progress |-> JsonStr("1")])
      [] i = links ->
            JsonDict([website |-> JsonStr("site"), verify_status |-> JsonNum(1)])
      [] i = wallet_count -> JsonDict([smart_wallets |-> JsonNum(2)])
      [] i = top_buyers ->
            JsonDict([holders |->
                JsonDict([holder_count |-> JsonNum(9),
                          statusNow |-> JsonDict([hold |-> JsonNum(4)])])])
      [] i = rug_history ->
            JsonDict([rug_ratio |-> JsonStr("0.5"), name |-> JsonStr("Token")])
      [] i = trade_history -> JsonDict([history |-> JsonList(<<Trade1>>)])
      [] i = kline_5m -> JsonDict([list |-> JsonList(<<Candle1, Candle2>>)])
      [] OTHER -> JsonDict([list |-> JsonList(<<Candle2>>)])

\* the 'data' values that are not of the expected shape: fields null or of
\* another type than the formatter reads them as
OddData(i) ==
    {JsonNull, JsonList(<<JsonNum(1)>>), JsonStr("text"), JsonNum(1)}
    \cup
    CASE i = dev_info ->
            {JsonDict([twitter_name_change_history |-> h]) :
                h \in {JsonNull, JsonList(<<>>), JsonList(<<JsonNum(1)>>),
                       JsonStr("old")}}
      [] i = launchpad_info ->
            {JsonDict([launchpad_progress |-> x]) :
                x \in {JsonNull, JsonStr("abc"), JsonNum(1), JsonList(<<>>)}}
      [] i = top_buyers ->
            {JsonDict([holders |-> h]) :
                h \in {JsonNull, EmptyDict, JsonDict([statusNow |-> JsonNull]),
                       JsonDict([holder_count |-> JsonNum(9)])}}
      [] i = rug_history ->
            {JsonDict([name |-> JsonStr("Token")]),
             JsonDict([rug_ratio |-> JsonNum(0)])}
      [] i = trade_history ->
            {JsonDict([history |-> h]) :
                h \in {JsonNull, JsonList(<<>>), JsonList(<<JsonNull, Trade1>>),
                       JsonDict([a |-> JsonNum(1)]),
                       JsonList(<<JsonDict([maker |-> JsonNull])>>)}}
      [] i \in {kline_5m, kline_4h} ->
            {JsonDict([list |-> l]) :
                l \in {JsonNull, JsonList(<<>>), JsonNum(1), JsonList(<<JsonNull>>),
                       JsonList(<<JsonDict([time |-> JsonNum(1)])>>),
                       JsonList(<<Candle(5000, JsonStr("abc"), JsonStr("4"),
                                         JsonStr("1"), JsonStr("3"), JsonStr("5"))>>),
                       JsonList(<<Candle(5000, JsonStr("0"), JsonStr("4"),
                                         JsonStr("1"), JsonStr("3"), JsonStr("5"))>>),
                       JsonList(<<Candle(0, JsonStr("2"), JsonStr("4"),
                                         JsonStr("0"), JsonStr("3"), JsonStr("5"))>>)}}
            \cup {JsonDict([other |-> JsonNum(1)])}
      [] OTHER -> {}

\* token stats and tag wallet count come wrapped in their response model
Wrapped(i) == i \in {stats, wallet_count}

\* what the endpoint method of fetch i returns for the decoded body json
Returned(i, json) == IF Wrapped(i) THEN ResponseModel(json.d) ELSE json

\* the response whose 'data' is data
Response(data) == JsonDict([code |-> JsonNum(0), data |-> data])

\* what a fetch comes to in the specification of the gathering: it raises,
\* or it returns a well-formed response
FetchOutcomes(i) == {FetchRaised, Returned(i, Response(SampleData(i)))}

\* what a fetch comes to in the specification of the assembly: also a
\* response without 'data', a body that is no dict, and the odd shapes
AbsentOutcomes(i) ==
    {FetchRaised, Returned(i, JsonDict([code |-> JsonNum(0)]))}
    \cup IF Wrapped(i) THEN {} ELSE {JsonList(<<>>)}
OddOutcomes(i) ==
    IF Wrapped(i) THEN {} ELSE {Response(d) : d \in OddData(i)}

\* number of fetches of one report whose outcome is of an odd shape
MaxOdd == 1

\* the results that gather hands to the assembly: every fetch absent, or
\* every fetch well-formed, but for at most MaxOdd fetches of any shape
AllAbsent == [i \in Fetches |-> FetchRaised]
AllPresent == [i \in Fetches |-> Returned(i, Response(SampleData(i)))]
AnyOutcomes(i) == FetchOutcomes(i) \cup AbsentOutcomes(i) \cup OddOutcomes(i)
RECURSIVE Varied(_, _)
Varied(S, k) ==
    IF k = 0 THEN S
    ELSE LET Outcomes == UNION {AnyOutcomes(i) : i \in Fetches}
             Changes  == {x \in Fetches \X Outcomes : x[2] \in AnyOutcomes(x[1])}
         IN  Varied(S \cup {[rs EXCEPT ![x[1]] = x[2]] : rs \in S, x \in Changes},
                    k - 1)
\* every fetch either raised or came back well-formed
Mixed ==
    {[i \in Fetches |-> IF i \in F THEN FetchRaised ELSE AllPresent[i]] :
        F \in SUBSET Fetches}
GatheredResults == Mixed \cup Varied({AllAbsent, AllPresent}, MaxOdd)
\* the results from which reports are assembled at several times
ClockResults ==
    {AllAbsent, AllPresent}
    \cup {[AllPresent EXCEPT ![i] = o] : i \in {kline_5m}, o \in AnyOutcomes(kline_5m)}
    \cup {[AllPresent EXCEPT ![i] = o] : i \in {kline_4h}, o \in AnyOutcomes(kline_4h)}

\* number of fetches of one report that raise, where the fetches come back
\* one after another
MaxFailures == 1

\* number of times the clock is read later than at first
MaxTicks == 1
\* number of reports assembled from the same results
MaxReports == 2

\* ---------------------------------------------------------- candle series
\* number of stretches of a price series, and the length of a stretch
MaxSegments == 2
MaxSegLen == 15
Slopes == {-1, 0, 1}
\* the lengths of a stretch: short ones, and the longest ones
StretchLens == {k \in 0..MaxSegLen : k \in {0, 1, 2, 5, 6} \/ k >= MaxSegLen - 1}
Segments == [len : StretchLens, slope : Slopes]

\* the prices that follow the price p along the stretches segs
RECURSIVE Stretch(_, _)
Stretch(p, segs) ==
    IF segs = <<>> THEN <<>>
    ELSE IF Head(segs).len = 0 THEN Stretch(p, Tail(segs))
    ELSE <<p + Head(segs).slope>>
            \o Stretch(p + Head(segs).slope,
                       <<[Head(segs) EXCEPT !.len = @ - 1]>> \o Tail(segs))

\* the first price: no series falls below 1
FirstPrice == MaxSegments * MaxSegLen + 1
PriceSeries ==
    {<<>>} \cup {<<FirstPrice>> \o Stretch(FirstPrice, segs) :
                    segs \in [1..MaxSegments -> Segments]}

\* the processed candles whose closes are the prices ps
CandlesOf(ps) ==
    [i \in 1..Len(ps) |->
        [time |-> Epoch + 300 * i, open |-> ps[i], high |-> ps[i] + 1,
         low |-> ps[i] - 1, close |-> ps[i], volume |-> 1]]
CandleSeries == {CandlesOf(ps) : ps \in PriceSeries}

\* ----------------------------------------------------------------- state
VARIABLES
    has_valid_cookies,  \* GmGnClient.has_valid_cookies
    cookies,            \* GmGnClient.session.cookies
    user_agent,         \* GmGnClient.session.headers['user-agent']
    pc,                 \* per thread: where it is in the client operation
    call,               \* per thread: the operation and its arguments
    cf_from,            \* per thread: who called _get_cf_clearance
    cf_pending,         \* per thread: the clearance data not yet applied
    response,           \* per thread: the proxy response being handled
    trace,              \* per thread: the HTTP requests issued by this operation
    result,             \* per thread: what the operation returned or raised
    ncalls,             \* per thread: operations started
    report,             \* get_all_token_info_for_markdown: where it is
    dex,                \* the last call of a DexScreen component
    now,                \* the clock
    fetched,            \* what each fetch of the report returned or raised
    results,            \* what gather holds for each fetch of the report
    reports,            \* what get_all_token_info_for_markdown came to
    candles,            \* the argument of _calculate_technical_indicators
    indicators          \* what _calculate_technical_indicators returned

vars == <<has_valid_cookies, cookies, user_agent, pc, call, cf_from,
          cf_pending, response, trace, result, ncalls, report, dex,
          now, fetched, results, reports, candles, indicators>>
client == <<has_valid_cookies, cookies, user_agent, pc, call, cf_from,
            cf_pending, response, trace, result, ncalls>>
session == <<has_valid_cookies, cookies, user_agent>>
\* the gathering and the assembly of a report
assembly == <<now, fetched, results, reports>>
\* the computation of the technical indicators
technical == <<candles, indicators>>
\* what no step of the GMGN client touches
others == <<report, dex, assembly, technical>>

NoResult == [kind |-> "none", error |-> "", status |-> 0, value |-> NoBody]

\* GmGnClient.__init__
Init ==
    /\ has_valid_cookies = FALSE
    /\ cookies = {}
    /\ user_agent = DefaultUserAgent
    /\ pc = [t \in Threads |-> "idle"]
    /\ call = [t \in Threads |-> NoCall]
    /\ cf_from = [t \in Threads |-> "none"]
    /\ cf_pending = [t \in Threads |-> NoPending]
    /\ response = [t \in Threads |-> NoResponse]
    /\ trace = [t \in Threads |-> <<>>]
    /\ result = [t \in Threads |-> NoResult]
    /\ ncalls = [t \in Threads |-> 0]
    /\ report = NoReport
    /\ dex = NoDexCall
    /\ now = Epoch
    /\ fetched = [i \in Fetches |-> Pending]
    /\ results = [i \in Fetches |-> Pending]
    /\ reports = <<>>
    /\ candles = <<>>
    /\ indicators = NoIndicators

\* GmGnClient.BASE_URL and GmGnClient.CF_SCRAPER_URL
BASE_URL == "https://gmgn.ai"
CF_SCRAPER_URL == "http://localhost:3003/cf-clearance-scraper"

\* the endpoint and the params that the endpoint method of the call c hands
\* to _make_request; params are pairs of a key and the text of its value
Endpoint(c) ==
    IF c.method = "get_trending" THEN "/defi/quotation/v1/rank/sol/swaps/1h"
    ELSE "/api/v1/token_info/sol/" \o c.token_address
Params(c) ==
    IF ~c.has_params THEN <<>>
    ELSE <<<<"orderby", "swaps">>, <<"direction", "desc">>, <<"limit", "15">>,
           <<"filters%5B%5D", "not_risk">>>>
         \o (IF c.no_proxy THEN <<<<"no_proxy", "True">>>> ELSE <<>>)

\* urlencode(params)
RECURSIVE UrlEncode(_)
UrlEncode(params) ==
    IF params = <<>> THEN ""
    ELSE params[1][1] \o "=" \o params[1][2]
           \o (IF Len(params) > 1 THEN "&" \o UrlEncode(Tail(params)) ELSE "")

\* url and full_url of _make_request
FullUrl(c) ==
    IF Params(c) # <<>> THEN BASE_URL \o Endpoint(c) \o "?" \o UrlEncode(Params(c))
    ELSE BASE_URL \o Endpoint(c)

\* the address and the params argument of a request of the call c: the
\* POST to the clearance service, self.session.get(full_url), and
\* requests.get(url, params=params, ...) through the proxy
Request(op, c) ==
    CASE op = "cf" -> [address |-> CF_SCRAPER_URL, params |-> <<>>]
      [] op = "direct" -> [address |-> FullUrl(c), params |-> <<>>]
      [] OTHER -> [address |-> BASE_URL \o Endpoint(c), params |-> Params(c)]

\* the record of one HTTP request in the trace: POST to the clearance service
\* ("cf"), session GET ("direct") or GET through the proxy ("proxy")
Event(op, r, c) ==
    [op |-> op, raised |-> r.raised, status |-> r.status,
     json_ok |-> r.json_ok, body |-> IF op = "cf" THEN NoBody ELSE r.body,
     address |-> Request(op, c).address, params |-> Request(op, c).params]
Issued(t, op, r) ==
    trace' = [trace EXCEPT ![t] = Append(@, Event(op, r, call[t]))]

\* raise Exception(msg)
Fail(t, msg, status) ==
    /\ result' = [result EXCEPT ![t] =
                    [kind |-> "error", error |-> msg, status |-> status,
                     value |-> NoBody]]
    /\ pc' = [pc EXCEPT ![t] = "done"]

\* return response.json()
ReturnJson(t, body) ==
    /\ result' = [result EXCEPT ![t] =
                    [kind |-> "value", error |-> "", status |-> 0,
                     value |-> body]]
    /\ pc' = [pc EXCEPT ![t] = "done"]

\* FallThrough with the no_proxy check left out
FallThrough_AlwaysProxy(t) ==
    /\ pc' = [pc EXCEPT ![t] = "proxy"]
    /\ UNCHANGED result

\* _make_request after the first try: the no_proxy check
FallThrough(t) ==
    IF call[t].has_params /\ call[t].no_proxy
    THEN Fail(t, "Request failed without proxy", 0)
    ELSE /\ pc' = [pc EXCEPT ![t] = "proxy"]
         /\ UNCHANGED result

\* _make_request up to the first try: the initial clearance check
MakeRequest(t, c) ==
    /\ pc[t] = "idle"
    /\ ncalls[t] < MaxCalls
    /\ ncalls' = [ncalls EXCEPT ![t] = @ + 1]
    /\ call' = [call EXCEPT ![t] = c]
    /\ trace' = [trace EXCEPT ![t] = <<>>]
    /\ result' = [result EXCEPT ![t] = NoResult]
    /\ IF has_valid_cookies
       THEN /\ pc' = [pc EXCEPT ![t] = "direct"]
            /\ UNCHANGED cf_from
       ELSE /\ pc' = [pc EXCEPT ![t] = "cf_post"]
            /\ cf_from' = [cf_from EXCEPT ![t] = "initial"]
    /\ UNCHANGED <<session, cf_pending, response, others>>

\* GmGnClient.get_trending
GetTrending(t) ==
    \E c \in Calls : c.method = "get_trending" /\ MakeRequest(t, c)

\* GmGnClient.get_token_info and the other per-token endpoints
GetTokenInfo(t) ==
    \E c \in Calls : c.method = "get_token_info" /\ MakeRequest(t, c)

\* GmGnClient.prepare_cf_clearance
PrepareCfClearance(t) ==
    /\ pc[t] = "idle"
    /\ ncalls[t] < MaxCalls
    /\ ncalls' = [ncalls EXCEPT ![t] = @ + 1]
    /\ call' = [call EXCEPT ![t] =
                  [NoCall EXCEPT !.method = "prepare_cf_clearance"]]
    /\ trace' = [trace EXCEPT ![t] = <<>>]
    /\ result' = [result EXCEPT ![t] = NoResult]
    /\ pc' = [pc EXCEPT ![t] = "cf_post"]
    /\ cf_from' = [cf_from EXCEPT ![t] = "prepare"]
    /\ UNCHANGED <<session, cf_pending, response, others>>

\* CfFalse with a failed initial clearance that goes on to the direct GET
CfFalse_Proceeds(t) ==
    CASE cf_from[t] = "initial" ->
            /\ pc' = [pc EXCEPT ![t] = "direct"]
            /\ UNCHANGED result
      [] cf_from[t] = "refresh" -> FallThrough(t)
      [] OTHER -> /\ pc' = [pc EXCEPT ![t] = "done"]
                  /\ UNCHANGED result

\* _get_cf_clearance returned False, back in its caller
CfFalse(t) ==
    CASE cf_from[t] = "initial" ->
            Fail(t, "Failed to get initial CF clearance", 0)
      [] cf_from[t] = "refresh" -> FallThrough(t)
      [] OTHER -> /\ pc' = [pc EXCEPT ![t] = "done"]
                  /\ UNCHANGED result

\* _get_cf_clearance returned True, back in its caller
CfTrue(t) ==
    /\ pc' = [pc EXCEPT ![t] =
                CASE cf_from[t] = "initial" -> "direct"
                  [] cf_from[t] = "refresh" -> "retry"
                  [] OTHER -> "done"]
    /\ UNCHANGED result

\* CfPost that marks the cookies invalid when the clearance fails
CfPost_InvalidatesOnFailure(t, CR) ==
    /\ pc[t] = "cf_post"
    /\ \E r \in CR :
          /\ Issued(t, "cf", r)
          /\ IF r.raised \/ r.status # 200 \/ ~r.json_ok
             THEN /\ CfFalse(t)
                  /\ has_valid_cookies' = FALSE
                  /\ UNCHANGED cf_pending
             ELSE /\ pc' = [pc EXCEPT ![t] = "cf_cookies"]
                  /\ cf_pending' = [cf_pending EXCEPT ![t] =
                                      [cookies |-> r.cookies, ua |-> r.ua]]
                  /\ UNCHANGED <<result, has_valid_cookies>>
    /\ UNCHANGED <<cookies, user_agent, call, cf_from, response, ncalls, others>>

\* _get_cf_clearance: the POST to the clearance service and the decoding of
\* its response
CfPost(t, CR) ==
    /\ pc[t] = "cf_post"
    /\ \E r \in CR :
          /\ Issued(t, "cf", r)
          /\ IF r.raised \/ r.status # 200 \/ ~r.json_ok
             THEN /\ CfFalse(t)
                  /\ UNCHANGED cf_pending
             ELSE /\ pc' = [pc EXCEPT ![t] = "cf_cookies"]
                  /\ cf_pending' = [cf_pending EXCEPT ![t] =
                                      [cookies |-> r.cookies, ua |-> r.ua]]
                  /\ UNCHANGED result
    /\ UNCHANGED <<session, call, cf_from, response, ncalls, others>>

\* _get_cf_clearance: one turn of the loop over data['cookies']
CfSetCookie(t) ==
    /\ pc[t] = "cf_cookies"
    /\ cf_pending[t].cookies # <<>>
    /\ LET c == Head(cf_pending[t].cookies)
       IN  IF c.ok
           THEN /\ cookies' = SetCookie(cookies, c.name, c.value, c.domain, c.path)
                /\ cf_pending' = [cf_pending EXCEPT ![t].cookies = Tail(@)]
                /\ UNCHANGED <<pc, result>>
           ELSE /\ CfFalse(t)
                /\ cf_pending' = [cf_pending EXCEPT ![t] = NoPending]
                /\ UNCHANGED cookies
    /\ UNCHANGED <<has_valid_cookies, user_agent, call, cf_from, response,
                   trace, ncalls, others>>

\* _get_cf_clearance: the user-agent update and has_valid_cookies = True
CfFinish(t) ==
    /\ pc[t] = "cf_cookies"
    /\ cf_pending[t].cookies = <<>>
    /\ user_agent' = IF cf_pending[t].ua # "" THEN cf_pending[t].ua ELSE user_agent
    /\ has_valid_cookies' = TRUE
    /\ cf_pending' = [cf_pending EXCEPT ![t] = NoPending]
    /\ CfTrue(t)
    /\ UNCHANGED <<cookies, call, cf_from, response, trace, ncalls, others>>

\* DirectGet that fails at once on a status other than 200, 401, 403
DirectGet_FailsOnOtherStatus(t, DR) ==
    /\ pc[t] = "direct"
    /\ \E r \in DR :
          /\ Issued(t, "direct", r)
          /\ IF r.raised THEN FallThrough(t) /\ UNCHANGED cf_from
             ELSE IF r.status = 200
             THEN /\ IF r.json_ok THEN ReturnJson(t, r.body) ELSE FallThrough(t)
                  /\ UNCHANGED cf_from
             ELSE IF r.status \in {403, 401}
             THEN /\ pc' = [pc EXCEPT ![t] = "cf_post"]
                  /\ cf_from' = [cf_from EXCEPT ![t] = "refresh"]
                  /\ UNCHANGED result
             ELSE /\ Fail(t, "Request failed with status code", r.status)
                  /\ UNCHANGED cf_from
    /\ UNCHANGED <<session, call, cf_pending, response, ncalls, others>>

\* DirectGet that repeats the GET after a status other than 200, 401, 403
DirectGet_RetriesOnOtherStatus(t, DR) ==
    /\ pc[t] = "direct"
    /\ \E r \in DR :
          /\ Issued(t, "direct", r)
          /\ IF r.raised THEN FallThrough(t) /\ UNCHANGED cf_from
             ELSE IF r.status = 200
             THEN /\ IF r.json_ok THEN ReturnJson(t, r.body) ELSE FallThrough(t)
                  /\ UNCHANGED cf_from
             ELSE IF r.status \in {403, 401}
             THEN /\ pc' = [pc EXCEPT ![t] = "cf_post"]
                  /\ cf_from' = [cf_from EXCEPT ![t] = "refresh"]
                  /\ UNCHANGED result
             ELSE /\ pc' = [pc EXCEPT ![t] = "retry"]
                  /\ UNCHANGED <<cf_from, result>>
    /\ UNCHANGED <<session, call, cf_pending, response, ncalls, others>>

\* _make_request, first try: session.get and what follows from its status
DirectGet(t, DR) ==
    /\ pc[t] = "direct"
    /\ \E r \in DR :
          /\ Issued(t, "direct", r)
          /\ IF r.raised THEN FallThrough(t) /\ UNCHANGED cf_from
             ELSE IF r.status = 200
             THEN /\ IF r.json_ok THEN ReturnJson(t, r.body) ELSE FallThrough(t)
                  /\ UNCHANGED cf_from
             ELSE IF r.status \in {403, 401}
             THEN /\ pc' = [pc EXCEPT ![t] = "cf_post"]
                  /\ cf_from' = [cf_from EXCEPT ![t] = "refresh"]
                  /\ UNCHANGED result
             ELSE FallThrough(t) /\ UNCHANGED cf_from
    /\ UNCHANGED <<session, call, cf_pending, response, ncalls, others>>

\* RetryGet that refreshes the clearance again when the retry is refused
RetryGet_RefreshAgain(t, DR) ==
    /\ pc[t] = "retry"
    /\ \E r \in DR :
          /\ Issued(t, "direct", r)
          /\ IF ~r.raised /\ r.status = 200 /\ r.json_ok
             THEN ReturnJson(t, r.body)
             ELSE IF ~r.raised /\ r.status \in {403, 401}
             THEN /\ pc' = [pc EXCEPT ![t] = "cf_post"]
                  /\ UNCHANGED result
             ELSE FallThrough(t)
    /\ UNCHANGED <<session, call, cf_from, cf_pending, response, ncalls, others>>

\* _make_request, first try: the second session.get, after a refresh
RetryGet(t, DR) ==
    /\ pc[t] = "retry"
    /\ \E r \in DR :
          /\ Issued(t, "direct", r)
          /\ IF ~r.raised /\ r.status = 200 /\ r.json_ok
             THEN ReturnJson(t, r.body)
             ELSE FallThrough(t)
    /\ UNCHANGED <<session, call, cf_from, cf_pending, response, ncalls, others>>

\* _make_request, second try: requests.get through the proxy
ProxyGet(t, PR) ==
    /\ pc[t] = "proxy"
    /\ \E r \in PR :
          /\ Issued(t, "proxy", r)
          /\ IF r.raised
             THEN /\ Fail(t, "Failed to fetch data", 0)
                  /\ UNCHANGED response
             ELSE /\ pc' = [pc EXCEPT ![t] = "proxy_response"]
                  /\ response' = [response EXCEPT ![t] = r]
                  /\ UNCHANGED result
    /\ UNCHANGED <<session, call, cf_from, cf_pending, ncalls, others>>

\* ProxyHandle whose failure does not carry the proxy's status code
ProxyHandle_DropsStatus(t) ==
    /\ pc[t] = "proxy_response"
    /\ LET r == response[t]
       IN  IF r.status = 200
           THEN /\ cookies' = UpdateCookiesFromHeaders(cookies, r.hdr_present, r.hdr)
                /\ IF r.json_ok THEN ReturnJson(t, r.body)
                   ELSE Fail(t, "Failed to fetch data", 0)
           ELSE /\ Fail(t, "Request failed with status code", 0)
                /\ UNCHANGED cookies
    /\ response' = [response EXCEPT ![t] = NoResponse]
    /\ UNCHANGED <<has_valid_cookies, user_agent, call, cf_from, cf_pending,
                   trace, ncalls, others>>

\* ProxyHandle whose failure carries the status code of the direct response
ProxyHandle_ReportsDirectStatus(t) ==
    /\ pc[t] = "proxy_response"
    /\ LET r == response[t]
           d == trace[t][CHOOSE i \in DOMAIN trace[t] :
                            /\ trace[t][i].op = "direct"
                            /\ \A j \in DOMAIN trace[t] :
                                  trace[t][j].op = "direct" => j <= i]
       IN  IF r.status = 200
           THEN /\ cookies' = UpdateCookiesFromHeaders(cookies, r.hdr_present, r.hdr)
                /\ IF r.json_ok THEN ReturnJson(t, r.body)
                   ELSE Fail(t, "Failed to fetch data", 0)
           ELSE /\ Fail(t, "Request failed with status code", d.status)
                /\ UNCHANGED cookies
    /\ response' = [response EXCEPT ![t] = NoResponse]
    /\ UNCHANGED <<has_valid_cookies, user_agent, call, cf_from, cf_pending,
                   trace, ncalls, others>>

\* _make_request, second try: the handling of the proxy's response
ProxyHandle(t) ==
    /\ pc[t] = "proxy_response"
    /\ LET r == response[t]
       IN  IF r.status = 200
           THEN /\ cookies' = UpdateCookiesFromHeaders(cookies, r.hdr_present, r.hdr)
                /\ IF r.json_ok THEN ReturnJson(t, r.body)
                   ELSE Fail(t, "Failed to fetch data", 0)
           ELSE /\ Fail(t, "Request failed with status code", r.status)
                /\ UNCHANGED cookies
    /\ response' = [response EXCEPT ![t] = NoResponse]
    /\ UNCHANGED <<has_valid_cookies, user_agent, call, cf_from, cf_pending,
                   trace, ncalls, others>>

\* the operation is over: its caller has the result
Return(t) ==
    /\ pc[t] = "done"
    /\ pc' = [pc EXCEPT ![t] = "idle"]
    /\ call' = [call EXCEPT ![t] = NoCall]
    /\ cf_from' = [cf_from EXCEPT ![t] = "none"]
    /\ trace' = [trace EXCEPT ![t] = <<>>]
    /\ result' = [result EXCEPT ![t] = NoResult]
    /\ UNCHANGED <<session, cf_pending, response, ncalls, others>>

\* get_all_token_info_for_markdown is called
ReportStart(A) ==
    /\ report.pc = "idle"
    /\ \E a \in A :
          report' = [pc |-> "prepare", token_address |-> a]
    /\ UNCHANGED <<client, dex, assembly, technical>>

\* get_all_token_info_for_markdown: prepare_cf_clearance starts in the
\* executor, and is awaited
ReportPrepare ==
    /\ report.pc = "prepare"
    /\ ncalls[Caller] = 0
    /\ PrepareCfClearance(Caller)

\* get_all_token_info_for_markdown: prepare_cf_clearance is over, whatever
\* it came to; the fetches are handed to the executor
ReportSpawn ==
    /\ report.pc = "prepare"
    /\ pc[Caller] = "done"
    /\ report' = [report EXCEPT !.pc = "fetch"]
    /\ UNCHANGED <<client, dex, assembly, technical>>

\* an executor thread starts the fetch it was handed
ReportFetch(t) ==
    /\ report.pc = "fetch"
    /\ ncalls[t] = 0
    /\ MakeRequest(t, [method |-> "get_token_info",
                       token_address |-> report.token_address,
                       has_params |-> FALSE, no_proxy |-> FALSE])

\* get_all_token_info_for_markdown: asyncio.gather has every result
ReportGather ==
    /\ report.pc = "fetch"
    /\ \A t \in ReportTasks : pc[t] = "done"
    /\ report' = [report EXCEPT !.pc = "gathered"]
    /\ UNCHANGED <<client, dex, assembly, technical>>

\* one report, whose fetches run concurrently in the executor's threads
NextReport ==
    \/ ReportStart(TokenAddresses)
    \/ ReportPrepare
    \/ ReportSpawn
    \/ \E t \in ReportTasks : ReportFetch(t)
    \/ \E t \in Threads : CfPost(t, ReportCfResponses)
    \/ \E t \in Threads : CfSetCookie(t)
    \/ \E t \in Threads : CfFinish(t)
    \/ \E t \in ReportTasks : DirectGet(t, ReportDirectResponses)
    \/ \E t \in ReportTasks : RetryGet(t, ReportDirectResponses)
    \/ \E t \in ReportTasks : ProxyGet(t, ReportProxyResponses)
    \/ \E t \in ReportTasks : ProxyHandle(t)
    \/ ReportGather

SpecReport == Init /\ [][NextReport]_vars

\* get_all_token_info_for_markdown: prepare_cf_clearance is over, whatever
\* it came to; the 13 fetches are handed to the executor and gathered.
\* Each fetch is taken as a whole here: it comes back with what its
\* endpoint method returns or raises.
ReportSubmit ==
    /\ report.pc = "prepare"
    /\ pc[Caller] = "done"
    /\ report' = [report EXCEPT !.pc = "await"]
    /\ UNCHANGED <<client, dex, assembly, technical>>

\* FetchReturns with a gather that keeps the results in the order in which
\* the fetches come back
FetchReturns_InCompletionOrder(i) ==
    /\ report.pc = "await"
    /\ fetched[i] = Pending
    /\ \E o \in FetchOutcomes(i) :
          /\ o = FetchRaised =>
                Cardinality({j \in Fetches : fetched[j] = FetchRaised}) < MaxFailures
          /\ fetched' = [fetched EXCEPT ![i] = o]
          /\ results' = [results EXCEPT
                           ![1 + Cardinality({j \in Fetches : fetched[j] # Pending})] = o]
    /\ UNCHANGED <<client, report, dex, now, reports, technical>>

\* a fetch comes back: gather keeps what it returned, or the exception it
\* raised, at the position of the fetch in tasks
FetchReturns(i) ==
    /\ report.pc = "await"
    /\ fetched[i] = Pending
    /\ \E o \in FetchOutcomes(i) :
          /\ o = FetchRaised =>
                Cardinality({j \in Fetches : fetched[j] = FetchRaised}) < MaxFailures
          /\ fetched' = [fetched EXCEPT ![i] = o]
          /\ results' = [results EXCEPT ![i] = o]
    /\ UNCHANGED <<client, report, dex, now, reports, technical>>

\* get_all_token_info_for_markdown: every fetch has come back; the records
\* are taken from the results, and the sections are formatted and joined
ReportAssemble ==
    /\ report.pc = "await"
    /\ \A i \in Fetches : fetched[i] # Pending
    /\ reports' = Append(reports, AssembleReport(results, now))
    /\ report' = [report EXCEPT !.pc = "done"]
    /\ UNCHANGED <<client, dex, now, fetched, results, technical>>

\* one report, from the call to the text, each fetch taken as a whole
NextGather ==
    \/ ReportStart({"Tok"})
    \/ ReportPrepare
    \/ CfPost(Caller, ReportCfResponses)
    \/ CfSetCookie(Caller)
    \/ CfFinish(Caller)
    \/ ReportSubmit
    \/ \E i \in Fetches : FetchReturns(i)
    \/ ReportAssemble

SpecGather == Init /\ [][NextGather]_vars

\* the results of gather are there: every fetch has come back
InitAssemble ==
    /\ has_valid_cookies \in BOOLEAN
    /\ cookies = {}
    /\ user_agent = DefaultUserAgent
    /\ pc = [t \in Threads |-> "idle"]
    /\ call = [t \in Threads |-> NoCall]
    /\ cf_from = [t \in Threads |-> "none"]
    /\ cf_pending = [t \in Threads |-> NoPending]
    /\ response = [t \in Threads |-> NoResponse]
    /\ trace = [t \in Threads |-> <<>>]
    /\ result = [t \in Threads |-> NoResult]
    /\ ncalls = [t \in Threads |-> 0]
    /\ report = [pc |-> "assemble", token_address |-> "Tok"]
    /\ dex = NoDexCall
    /\ now = Epoch
    /\ results \in GatheredResults
    /\ fetched = results
    /\ reports = <<>>
    /\ candles = <<>>
    /\ indicators = NoIndicators

\* the records are taken from the results of gather, and the sections are
\* formatted and joined, for the n-th time at most
FormatReport(n) ==
    /\ report.pc = "assemble"
    /\ Len(reports) < n
    /\ reports' = Append(reports, AssembleReport(results, now))
    /\ UNCHANGED <<client, report, dex, now, fetched, results, technical>>

\* time passes
Tick ==
    /\ now < Epoch + MaxTicks * TickSeconds
    /\ now' = now + TickSeconds
    /\ UNCHANGED <<client, report, dex, fetched, results, reports, technical>>

\* the assembly of reports from results of every shape
NextAssemble == FormatReport(1)

SpecAssemble == InitAssemble /\ [][NextAssemble]_vars

\* the results of gather are there, and the clock runs
InitClock ==
    /\ has_valid_cookies = TRUE
    /\ cookies = {}
    /\ user_agent = DefaultUserAgent
    /\ pc = [t \in Threads |-> "idle"]
    /\ call = [t \in Threads |-> NoCall]
    /\ cf_from = [t \in Threads |-> "none"]
    /\ cf_pending = [t \in Threads |-> NoPending]
    /\ response = [t \in Threads |-> NoResponse]
    /\ trace = [t \in Threads |-> <<>>]
    /\ result = [t \in Threads |-> NoResult]
    /\ ncalls = [t \in Threads |-> 0]
    /\ report = [pc |-> "assemble", token_address |-> "Tok"]
    /\ dex = NoDexCall
    /\ now = Epoch
    /\ results \in ClockResults
    /\ fetched = results
    /\ reports = <<>>
    /\ candles = <<>>
    /\ indicators = NoIndicators

\* the assembly of reports from the same results at several times
NextClock ==
    \/ FormatReport(MaxReports)
    \/ Tick

SpecClock == InitClock /\ [][NextClock]_vars

\* _calculate_technical_indicators is about to be called
InitIndicators ==
    /\ has_valid_cookies = FALSE
    /\ cookies = {}
    /\ user_agent = DefaultUserAgent
    /\ pc = [t \in Threads |-> "idle"]
    /\ call = [t \in Threads |-> NoCall]
    /\ cf_from = [t \in Threads |-> "none"]
    /\ cf_pending = [t \in Threads |-> NoPending]
    /\ response = [t \in Threads |-> NoResponse]
    /\ trace = [t \in Threads |-> <<>>]
    /\ result = [t \in Threads |-> NoResult]
    /\ ncalls = [t \in Threads |-> 0]
    /\ report = NoReport
    /\ dex = NoDexCall
    /\ now = Epoch
    /\ fetched = [i \in Fetches |-> Pending]
    /\ results = [i \in Fetches |-> Pending]
    /\ reports = <<>>
    /\ candles \in CandleSeries
    /\ indicators = NoIndicators

\* GmGnClient._calculate_technical_indicators(candles)
CalculateIndicators ==
    /\ ~indicators.computed
    /\ indicators' = CalculateTechnicalIndicators(candles)
    /\ UNCHANGED <<client, report, dex, assembly, candles>>

NextIndicators == CalculateIndicators

SpecIndicators == InitIndicators /\ [][NextIndicators]_vars

\* DexScreenToolComponent._dexscreen_tool
DexScreenTool ==
    /\ dex = NoDexCall
    /\ \E c \in DexTexts, p \in DexTexts, a \in AddressTexts, q \in DexTexts,
          m \in DexScreenMethod \cup {"other"}, http \in DexHttp :
          dex' = DexCall("DexScreenTool", m, c, p, a, q, "ToolException",
                         "Error retrieving data from DexScreener API: ", TRUE,
                         DexscreenToolBody(c, p, a, q, m, http))
    /\ UNCHANGED <<client, report, assembly, technical>>

\* PairsTool._get_pairs
PairsTool ==
    /\ dex = NoDexCall
    /\ \E c \in DexTexts, p \in DexTexts, http \in DexHttp :
          dex' = DexCall("PairsTool", "get_pairs", c, p, Absent, Absent,
                         "ToolException", "Error retrieving pairs: ", TRUE,
                         GetPairsBody(c, p, http))
    /\ UNCHANGED <<client, report, assembly, technical>>

\* OrdersTool._get_orders
OrdersTool ==
    /\ dex = NoDexCall
    /\ \E c \in DexTexts, a \in DexTexts, http \in DexHttp :
          dex' = DexCall("OrdersTool", "get_token_orders", c, Absent, a, Absent,
                         "ToolException", "Error retrieving token orders: ", TRUE,
                         GetOrdersBody(c, a, http))
    /\ UNCHANGED <<client, report, assembly, technical>>

\* SearchTool._search_pairs
SearchTool ==
    /\ dex = NoDexCall
    /\ \E q \in DexTexts, http \in DexHttp :
          dex' = DexCall("SearchTool", "search_pairs", Absent, Absent, Absent, q,
                         "ToolException", "Error searching pairs: ", TRUE,
                         SearchPairsBody(q, http))
    /\ UNCHANGED <<client, report, assembly, technical>>

\* DexScreenAPI.build
DexScreenAPIBuild ==
    /\ dex = NoDexCall
    /\ \E c \in DexTexts, p \in DexTexts, a \in AddressTexts, q \in DexTexts,
          http \in DexHttp :
          dex' = DexCall("DexScreenAPI", "build", c, p, a, q, "ValueError",
                         "Error fetching data from DexScreener API: ", FALSE,
                         BuildBody(c, p, a, q, http))
    /\ UNCHANGED <<client, report, assembly, technical>>

\* one call of one DexScreen component: the components keep nothing from
\* one call to the next but the status text
NextDex ==
    \/ DexScreenTool
    \/ PairsTool
    \/ OrdersTool
    \/ SearchTool
    \/ DexScreenAPIBuild

SpecDex == Init /\ [][NextDex]_vars

\* a caller that issues client operations one after another
Next ==
    \/ GetTrending(Caller)
    \/ GetTokenInfo(Caller)
    \/ PrepareCfClearance(Caller)
    \/ CfPost(Caller, CfResponses)
    \/ CfSetCookie(Caller)
    \/ CfFinish(Caller)
    \/ DirectGet(Caller, DirectResponses)
    \/ RetryGet(Caller, DirectResponses)
    \/ ProxyGet(Caller, ProxyResponses(FewHeaderValues))
    \/ ProxyHandle(Caller)
    \/ Return(Caller)

Spec == Init /\ [][Next]_vars

\* one client operation on a session that has no clearance yet, with proxy
\* responses that carry every header value of HeaderValues
InitCookies ==
    /\ has_valid_cookies = FALSE
    /\ cookies = {}
    /\ user_agent = DefaultUserAgent
    /\ pc = [t \in Threads |-> "idle"]
    /\ call = [t \in Threads |-> NoCall]
    /\ cf_from = [t \in Threads |-> "none"]
    /\ cf_pending = [t \in Threads |-> NoPending]
    /\ response = [t \in Threads |-> NoResponse]
    /\ trace = [t \in Threads |-> <<>>]
    /\ result = [t \in Threads |-> NoResult]
    /\ ncalls = [t \in Threads |-> MaxCalls - 1]
    /\ report = NoReport
    /\ dex = NoDexCall
    /\ now = Epoch
    /\ fetched = [i \in Fetches |-> Pending]
    /\ results = [i \in Fetches |-> Pending]
    /\ reports = <<>>
    /\ candles = <<>>
    /\ indicators = NoIndicators

NextCookies ==
    \/ GetTrending(Caller)
    \/ GetTokenInfo(Caller)
    \/ CfPost(Caller, CfResponses)
    \/ CfSetCookie(Caller)
    \/ CfFinish(Caller)
    \/ DirectGet(Caller, DirectResponses)
    \/ RetryGet(Caller, DirectResponses)
    \/ ProxyGet(Caller, ProxyResponses(HeaderValues))
    \/ ProxyHandle(Caller)
    \/ Return(Caller)

SpecCookies == InitCookies /\ [][NextCookies]_vars

\* a caller that never stops in the middle of an operation
FairSpec == Spec /\ WF_vars(Next)

\* ------------------------------------------------------ reading the trace
\* positions in thread t's trace of the requests of kind op
Ops(t, op) == {i \in 1..Len(trace[t]) : trace[t][i].op = op}
Gets(t) == Ops(t, "direct") \cup Ops(t, "proxy")
InMakeRequest(t) == call[t].method \in {"get_trending", "get_token_info"}
NoProxyFlag(t) == call[t].has_params /\ call[t].no_proxy
Denied(e) == ~e.raised /\ e.status \in {401, 403}
Min(S) == CHOOSE x \in S : \A y \in S : x <= y
Max(S) == CHOOSE x \in S : \A y \in S : x >= y

ClearanceError == "Failed to get initial CF clearance"
DirectRequestFailed == "Request failed without proxy"
RequestFailed == "Request failed with status code"
FetchFailed == "Failed to fetch data"

\* ----------------------------------------------------------------- claims

\* C1: a direct request that returns 200 never triggers a proxy request,
\* whatever the body of the 200 response is: in no call is a direct GET
\* with status 200 followed by a GET through the proxy.
C1_Direct200NeverProxy ==
    \A t \in Threads :
        \A i \in Ops(t, "direct") :
            (~trace[t][i].raised /\ trace[t][i].status = 200)
                => \A j \in Ops(t, "proxy") : j < i

\* C2: a first direct GET that returns 401/403 is followed by exactly one
\* call to the clearance service; the call then ends with the retried
\* response, or falls back to the proxy (or fails, under no_proxy); a retry
\* that is again 401/403 brings no second refresh and no third direct GET.
C2_OneRefreshAfterDenied ==
    \A t \in Threads :
        (InMakeRequest(t) /\ Ops(t, "direct") # {}
                /\ Denied(trace[t][Min(Ops(t, "direct"))]))
        => LET i      == Min(Ops(t, "direct"))
               after  == {j \in 1..Len(trace[t]) : j > i}
               cfs    == after \cap Ops(t, "cf")
               gets   == after \cap Ops(t, "direct")
           IN  /\ Cardinality(cfs) <= 1
               /\ Cardinality(gets) <= 1
               /\ Len(trace[t]) > i => cfs = {i + 1}
               /\ gets \subseteq {i + 2}
               /\ pc[t] = "cf_post" <=> cfs = {}
               /\ pc[t] = "done" =>
                    \/ result[t].kind = "value" /\ gets # {}
                         /\ Len(trace[t]) = i + 2
                    \/ Ops(t, "proxy") # {}
                    \/ NoProxyFlag(t) /\ result[t].error = DirectRequestFailed

\* C2 witness: a call is over whose first direct GET and whose retry were
\* both refused
C2_Witness ==
    \E t \in Threads :
        /\ pc[t] = "done"
        /\ Cardinality(Ops(t, "direct")) = 2
        /\ \A i \in Ops(t, "direct") : Denied(trace[t][i])
        /\ Cardinality(Ops(t, "cf")) = 1

\* the characters of cookie names, and those of cookie values
TokenChars == {"a", "b", "1", "2"}
CookieOctets == TokenChars \cup {"="}

\* the cookie a single Set-Cookie value v names: the name=value pair that
\* precedes its attributes, if v starts with one
NamesCookie(v) ==
    LET pair == Strip(Split(v, ";")[1])
    IN  /\ Contains(pair, "=")
        /\ LET nv == SplitOnce(pair, "=")
           IN  /\ nv[1] # <<>>
               /\ \A i \in 1..Len(nv[1]) : nv[1][i] \in TokenChars
               /\ \A i \in 1..Len(nv[2]) : nv[2][i] \in CookieOctets
NamedCookie(v) ==
    LET nv == SplitOnce(Strip(Split(v, ";")[1]), "=")
    IN  [name |-> nv[1], value |-> nv[2], domain |-> ".gmgn.ai", path |-> "/"]

\* the values of a header field that was sent several times arrive joined
\* by commas; the header names cookies when each of its values does
HeaderFieldValues(hdr) == Split(hdr, ",")
NamesCookies(hdr) ==
    \A k \in 1..Len(HeaderFieldValues(hdr)) : NamesCookie(HeaderFieldValues(hdr)[k])

\* C3: whenever the proxy GET returns 200 with a Zr-Set-Cookie header, the
\* session's cookie jar holds, when the call is over, every cookie that the
\* header names (domain .gmgn.ai, path /) with the value the header gives;
\* for a name given several times the last value counts.
C3_ProxyCookiesUpdated ==
    [][\A t \in Threads :
        (pc[t] = "proxy_response" /\ pc'[t] = "done"
            /\ response[t].status = 200 /\ response[t].hdr_present
            /\ NamesCookies(response[t].hdr))
        => LET vs == HeaderFieldValues(response[t].hdr)
           IN  \A k \in 1..Len(vs) :
                 (\A m \in (k + 1)..Len(vs) :
                     NamedCookie(vs[m]).name # NamedCookie(vs[k]).name)
                 => NamedCookie(vs[k]) \in cookies']_vars

\* the inputs that the call of a DexScreen component requires
Required(d) ==
    CASE d.component = "DexScreenTool" /\ d.method = "get_token_orders" ->
            {d.chain_id, d.token_addresses}
      [] d.component = "DexScreenTool" /\ d.method = "get_pairs" ->
            {d.chain_id, d.pair_id}
      [] d.component = "DexScreenTool" /\ d.method = "get_pairs_by_token" ->
            {d.token_addresses}
      [] d.component = "DexScreenTool" /\ d.method = "search_pairs" ->
            {d.search_query}
      [] d.component = "PairsTool" -> {d.chain_id, d.pair_id}
      [] d.component = "OrdersTool" -> {d.chain_id, d.token_addresses}
      [] d.component = "SearchTool" -> {d.search_query}
      [] OTHER -> {}

\* DexScreenAPI.build is given one of chain_id and pair_id, and nothing else
OnlyOneOfChainAndPair(d) ==
    /\ d.component = "DexScreenAPI"
    /\ Falsy(d.chain_id) # Falsy(d.pair_id)
    /\ Falsy(d.token_addresses) /\ Falsy(d.search_query)

\* C4: a call with a missing (absent or empty) required parameter fails
\* before any network request is issued: the DexScreen tools, DexScreenAPI
\* build given only one of chain_id and pair_id, and the per-token
\* endpoints of the GMGN client given an empty token address.
C4_MissingParameterFailsBeforeRequest ==
    /\ ((\E v \in Required(dex) : Falsy(v)) \/ OnlyOneOfChainAndPair(dex))
          => dex.requests = <<>> /\ dex.kind \in {"ToolException", "ValueError"}
    /\ \A t \in Threads :
          (call[t].method = "get_token_info" /\ call[t].token_address = "")
              => /\ trace[t] = <<>>
                 /\ pc[t] = "done" => result[t].kind = "error"

\* a thread is changing the session's cookie jar: it is in the loop of
\* _get_cf_clearance that sets the cookies, or it has the proxy's 200
\* response and is about to take the cookie of its header
InCookieUpdate(t) ==
    \/ pc[t] = "cf_cookies"
    \/ pc[t] = "proxy_response" /\ response[t].status = 200

C5_NoGetWithoutClearance ==
    \A t \in Threads :
        ~has_valid_cookies =>
            /\ Gets(t) = {}
            /\ pc[t] \notin {"direct", "retry", "proxy", "proxy_response"}
            /\ (InMakeRequest(t) /\ pc[t] # "idle") =>
                    IF trace[t] = <<>> THEN pc[t] = "cf_post"
                    ELSE trace[t][1].op = "cf"
            /\ (InMakeRequest(t) /\ pc[t] = "done") =>
                    /\ result[t].kind = "error"
                    /\ result[t].error = ClearanceError
                    /\ Len(trace[t]) = 1

\* C5 witness: a request has failed with the clearance error
C5_Witness ==
    \E t \in Threads :
        /\ InMakeRequest(t) /\ pc[t] = "done"
        /\ ~has_valid_cookies
        /\ result[t].error = ClearanceError
        /\ Ops(t, "cf") = {1}

\* C6: with the no-proxy flag set no request goes through the proxy; a
\* direct path that does not end in a decoded 200 fails with the
\* direct-request failure.
C6_NoProxyFlagNeverProxies ==
    \A t \in Threads :
        (InMakeRequest(t) /\ NoProxyFlag(t)) =>
            /\ Ops(t, "proxy") = {}
            /\ pc[t] \notin {"proxy", "proxy_response"}
            /\ (pc[t] = "done" /\ Ops(t, "direct") # {}) =>
                 \/ /\ result[t].kind = "value"
                    /\ LET e == trace[t][Len(trace[t])]
                       IN  /\ e.op = "direct" /\ ~e.raised /\ e.status = 200
                           /\ result[t].value = e.body
                 \/ /\ result[t].kind = "error"
                    /\ result[t].error = DirectRequestFailed

\* C6 witness: a no-proxy call has failed after a refused GET, a refresh
\* and a refused retry
C6_Witness ==
    \E t \in Threads :
        /\ pc[t] = "done" /\ NoProxyFlag(t)
        /\ Cardinality(Ops(t, "direct")) = 2
        /\ Denied(trace[t][Len(trace[t])])
        /\ result[t].error = DirectRequestFailed

\* what a call that reached the proxy ends with, given the proxy request e
ProxyOutcome(e) ==
    IF e.raised
    THEN [kind |-> "error", error |-> FetchFailed, status |-> 0, value |-> NoBody]
    ELSE IF e.status # 200
    THEN [kind |-> "error", error |-> RequestFailed, status |-> e.status,
          value |-> NoBody]
    ELSE IF e.json_ok
    THEN [kind |-> "value", error |-> "", status |-> 0, value |-> e.body]
    ELSE [kind |-> "error", error |-> FetchFailed, status |-> 0, value |-> NoBody]

\* the direct path of thread t's call is over and did not end in a 200
\* response: its last request raised, or was answered with another status,
\* or was a refresh that failed
DirectPathFailed(t) ==
    /\ Ops(t, "direct") # {}
    /\ LET last == Max(Ops(t, "direct") \cup Ops(t, "cf"))
           e    == trace[t][last]
       IN  \/ e.op = "direct" /\ (e.raised \/ e.status # 200)
           \/ e.op = "cf"

\* C7: with the no-proxy flag unset, a direct path that ends without a 200
\* is followed by exactly one GET through the proxy, and the proxy's
\* response alone decides the outcome of the call.
C7_DirectFailureThenOneProxyGet ==
    \A t \in Threads :
        (InMakeRequest(t) /\ ~NoProxyFlag(t) /\ pc[t] = "done"
                /\ DirectPathFailed(t))
        => /\ Cardinality(Ops(t, "proxy")) = 1
           /\ Ops(t, "proxy") = {Len(trace[t])}
           /\ result[t] = ProxyOutcome(trace[t][Len(trace[t])])

\* C7 witness: a call is over whose retried GET raised and whose proxy GET
\* was answered
C7_Witness ==
    \E t \in Threads :
        /\ pc[t] = "done" /\ InMakeRequest(t) /\ ~NoProxyFlag(t)
        /\ Cardinality(Ops(t, "direct")) = 2
        /\ trace[t][Max(Ops(t, "direct"))].raised
        /\ Ops(t, "proxy") # {}
        /\ result[t].kind = "value"

\* C8, as claimed: on the proxy path every status other than 200 and every
\* exception makes the call fail with the request-failed error that
\* carries the status code.
C8_ProxyFailureCarriesStatus ==
    \A t \in Threads :
        (pc[t] = "done" /\ Ops(t, "proxy") # {}) =>
            LET e == trace[t][Max(Ops(t, "proxy"))]
            IN  (e.raised \/ e.status # 200 \/ ~e.json_ok) =>
                    /\ result[t].kind = "error"
                    /\ result[t].error = RequestFailed
                    /\ result[t].status = e.status

\* C8, amended: on the proxy path a status other than 200 makes the call
\* fail with the request-failed error that carries that status code; an
\* exception (of the request, or of decoding a 200 body) makes it fail
\* with the fetch-failed error, which carries no status code; in neither
\* case does the call return a value.
C8_ProxyFailureReported ==
    \A t \in Threads :
        (pc[t] = "done" /\ Ops(t, "proxy") # {}) =>
            LET e == trace[t][Max(Ops(t, "proxy"))]
            IN  /\ (~e.raised /\ e.status # 200) =>
                    /\ result[t].kind = "error"
                    /\ result[t].error = RequestFailed
                    /\ result[t].status = e.status
                /\ (e.raised \/ (e.status = 200 /\ ~e.json_ok)) =>
                    /\ result[t].kind = "error"
                    /\ result[t].error = FetchFailed
                    /\ result[t].status = 0

\* C8 witness: calls have failed on the proxy path, one with a status and
\* one with an exception
C8_Witness ==
    \E t \in Threads :
        /\ pc[t] = "done" /\ Ops(t, "proxy") # {}
        /\ ~trace[t][Max(Ops(t, "proxy"))].raised
        /\ trace[t][Max(Ops(t, "proxy"))].status = 500
        /\ result[t].error = RequestFailed

\* the requests of thread t's call stay within the one refresh-and-retry
C9_Counts(t) ==
    /\ Cardinality(Ops(t, "direct")) <= 2
    /\ Cardinality(Ops(t, "proxy")) <= 1
    /\ Cardinality(Ops(t, "cf")) <= 2
    /\ Cardinality(Ops(t, "direct")) = 2 =>
          LET i == Min(Ops(t, "direct"))
          IN  /\ Denied(trace[t][i])
              /\ trace[t][i + 1].op = "cf"
              /\ ~trace[t][i + 1].raised /\ trace[t][i + 1].status = 200
              /\ trace[t][i + 2].op = "direct"

\* C9: no retries beyond the one refresh-and-retry: a call issues at most
\* two direct GETs (the second only after a 401/403 and a refresh that
\* succeeded), at most one proxy GET and at most two clearance calls, and
\* every call that the caller has started comes to its end.
C9_BoundedRequestsAndTermination ==
    /\ [](\A t \in Threads : C9_Counts(t))
    /\ (pc[Caller] # "idle") ~> (pc[Caller] = "done")

\* C9 witness: a call is over that issued two clearance calls, two direct
\* GETs and one proxy GET
C9_Witness ==
    \E t \in Threads :
        /\ pc[t] = "done"
        /\ Cardinality(Ops(t, "cf")) = 2
        /\ Cardinality(Ops(t, "direct")) = 2
        /\ Cardinality(Ops(t, "proxy")) = 1


\* ------------------------------------------------------------------ C11
\* the fetch whose record each section of the report is formatted from;
\* 0 for the two headings that are formatted from no record
SectionSource ==
    <<token_info, token_info, pool_info, security_info, dev_info, stats,
      wallet_count, launchpad_info, links, 0, kline_5m, 0, kline_4h,
      trade_history, rug_history, top_buyers>>

\* every fetch either raised or returned its well-formed response
RaisedOrWellFormed == \A i \in Fetches : results[i] \in FetchOutcomes(i)

\* every fetch returned a response that has no 'data'
NoDataResults == [i \in Fetches |-> JsonDict([code |-> JsonNum(0)])]

\* C11: partial failures do not abort the report. Whatever subset of the 13
\* fetches raised (none, some or all of them), and whether or not the
\* preparatory clearance left the session with valid cookies, the report is
\* returned and not raised; every section whose fetch raised reads as it
\* reads when its record is absent, and every other section reads as it
\* reads when no fetch raised.
C11_PartialFailuresDoNotAbort ==
    \A n \in 1..Len(reports) :
        RaisedOrWellFormed =>
            LET rep     == reports[n]
                absent  == AssembleReport(NoDataResults, rep.at)
                present == AssembleReport(AllPresent, rep.at)
            IN  /\ ~rep.raised
                /\ Len(rep.starts) = Len(SectionSource)
                /\ \A k \in 1..Len(SectionSource) :
                      SectionOf(rep, k) =
                        IF SectionSource[k] # 0 /\ results[SectionSource[k]] = FetchRaised
                        THEN SectionOf(absent, k)
                        ELSE SectionOf(present, k)

\* a report was returned after a clearance that failed, with the fetch of
\* the 5m candles and two more fetches raising and the others returning
C11_Witness ==
    /\ Len(reports) = 1
    /\ ~reports[1].raised
    /\ ~has_valid_cookies
    /\ RaisedOrWellFormed
    /\ {i \in Fetches : results[i] = FetchRaised} = {dev_info, top_buyers, kline_5m}
    /\ SectionOf(reports[1], 11) # SectionOf(AssembleReport(AllPresent, now), 11)
    /\ SectionOf(reports[1], 13) = SectionOf(AssembleReport(AllPresent, now), 13)

\* ------------------------------------------------------------------ C12
\* every fetch is present (a well-formed response) or absent (it raised,
\* its response has no 'data', or its body is no dict)
PresentOrAbsent ==
    \A i \in Fetches : results[i] \in FetchOutcomes(i) \cup AbsentOutcomes(i)

\* the titles of the reports: the symbol of the token, or 'Unknown Token'
Titles == {Headings[1] \o sym : sym \in {"TKN", "Unknown Token"}}

\* the lines of a report that are headings of its parts
HeadingLines(text) ==
    {p \in 1..Len(text) :
        text[p] \in Titles \cup {Headings[k] : k \in 2..Len(Headings)}}

\* C12: no section is ever omitted. For every combination of present and
\* absent inputs the report is returned, and every report that is returned
\* consists of the same 16 parts in the same order: the title, then the 15
\* headed sections, each beginning with its own heading, separated by
\* blank lines, and no heading occurs anywhere else in the text.
C12_NoSectionOmitted ==
    \A n \in 1..Len(reports) :
        LET rep == reports[n]
        IN  /\ PresentOrAbsent => ~rep.raised
            /\ ~rep.raised =>
                  /\ Len(rep.starts) = Len(Headings)
                  /\ rep.starts[1] = 1
                  /\ rep.text[1] \in Titles
                  /\ \A k \in 2..Len(Headings) :
                        /\ rep.starts[k] > rep.starts[k - 1] + 1
                        /\ rep.starts[k] <= Len(rep.text)
                        /\ rep.text[rep.starts[k] - 1] = ""
                        /\ rep.text[rep.starts[k]] = Headings[k]
                  /\ HeadingLines(rep.text) = {rep.starts[k] : k \in 1..Len(Headings)}

\* a report was returned for results of which the 5m candles or the top
\* buyers have no 'data' while the token info is there
C12_Witness ==
    /\ Len(reports) = 1
    /\ ~reports[1].raised
    /\ Len(reports[1].starts) = Len(Headings)
    /\ results[token_info] = AllPresent[token_info]
    /\ \E i \in {kline_5m, top_buyers} : results[i] = NoDataResults[i]
    /\ reports[1].text[1] = Headings[1] \o "TKN"

\* ------------------------------------------------------------------ C13
\* C13: no exception propagates from report formatting. Whatever the shape
\* of the fetched records (fields absent, null or of an unexpected type),
\* get_all_token_info_for_markdown returns a report and does not raise.
C13_NoExceptionFromFormatting ==
    \A n \in 1..Len(reports) : ~reports[n].raised

\* ------------------------------------------------------------------ C14
\* the 13 records are all empty
AllRecordsEmpty == \A i \in Fetches : Record(results[i]) = EmptyDict

\* the lines that state a finding about the token, where a placeholder
\* would read 'N/A', 0 or 'no data' (the glyphs of the lines are left out)
Verdicts ==
    {"- **Alert Status**: Safe", "- **Alert Status**: Warning",
     "- **Mint Authority Renounced**: No", "- **Mint Authority Renounced**: Yes",
     "- **Freeze Authority Renounced**: No", "- **Freeze Authority Renounced**: Yes",
     "- **Verification Status**: Unverified", "- **Verification Status**: Verified"}

\* C14: report assembly with all inputs absent never raises and produces
\* only placeholders. When the 13 records are all empty the report is
\* returned; its two charts, its recent trades, its risk assessment and its
\* top buyers are each their heading and their 'no data' sentence; and no
\* line of it states a finding about the token.
C14_AllAbsentOnlyPlaceholders ==
    \A n \in 1..Len(reports) :
        AllRecordsEmpty =>
            LET rep == reports[n]
            IN  /\ ~rep.raised
                /\ SectionOf(rep, 11) = <<Headings[11], "No price data available.">>
                /\ SectionOf(rep, 13) = <<Headings[13], "No price data available.">>
                /\ SectionOf(rep, 14) = <<Headings[14], "No recent trades found.">>
                /\ SectionOf(rep, 15) = <<Headings[15], "No rug analysis data available.">>
                /\ SectionOf(rep, 16) = <<Headings[16], "No top buyers data available.">>
                /\ \A p \in 1..Len(rep.text) : rep.text[p] \notin Verdicts

\* ------------------------------------------------------------------ C15
\* the results of a gather in which only fetch i came back with what it
\* came back with, every other fetch having raised
OnlyFetch(i) == [j \in Fetches |-> IF j = i THEN fetched[i] ELSE FetchRaised]

\* C15: the report is independent of the order in which the 13 fetches
\* complete. In whatever order the fetches came back, gather holds what
\* each fetch returned at the position of that fetch, the report is the one
\* assembled from what each fetch returned, taken by the position of the
\* fetch in tasks, and each section reads as its own fetch alone makes it
\* read; so the section contents are a function of the returned records.
C15_ReportIndependentOfCompletionOrder ==
    /\ \A i \in Fetches : results[i] = fetched[i]
    /\ \A n \in 1..Len(reports) :
        LET rep == reports[n]
        IN  /\ rep = AssembleReport(fetched, rep.at)
            /\ ~rep.raised
            /\ \A k \in 1..Len(SectionSource) :
                  SectionSource[k] # 0 =>
                    SectionOf(rep, k) =
                      SectionOf(AssembleReport(OnlyFetch(SectionSource[k]), rep.at), k)

\* the report of a run in which the fetch of the 5m candles raised and
\* the other fetches returned: the 5m chart has no data, the 4h chart and
\* the token information are those of their own fetches
C15_Witness ==
    /\ report.pc = "done"
    /\ Len(reports) = 1
    /\ {i \in Fetches : fetched[i] = FetchRaised} = {kline_5m}
    /\ SectionOf(reports[1], 11) = <<Headings[11], "No price data available.">>
    /\ Len(SectionOf(reports[1], 13)) > 2
    /\ SectionOf(reports[1], 2)[2] = "- **Symbol**: TKN"

\* ------------------------------------------------------------------ C16
\* the closes of the candles that the indicators are computed from
Closes == [i \in 1..Len(candles) |-> candles[i].close]
Highs == [i \in 1..Len(candles) |-> candles[i].high]
Lows == [i \in 1..Len(candles) |-> candles[i].low]

\* no price is lower, or no price is higher, than its predecessor
NonDecreasing(ps) == \A i \in 2..Len(ps) : ps[i] >= ps[i - 1]
NonIncreasing(ps) == \A i \in 2..Len(ps) : ps[i] <= ps[i - 1]

\* the positions of the last n changes of the prices ps, each named by the
\* position of the later price
LastChanges(ps, n) == {i \in 2..Len(ps) : i > Len(ps) - n}

\* C16, as stated: the RSI of a series of closes in which no close is
\* lower than its predecessor is 100, and the RSI of a series in which no
\* close is higher than its predecessor is 0.
C16_MonotoneRsiAtEndOfScale ==
    indicators.computed =>
        /\ NonDecreasing(Closes) => FracEq(indicators.rsi, Whole(100))
        /\ NonIncreasing(Closes) => FracEq(indicators.rsi, Whole(0))

\* C16, amended: for a series of at least 15 closes, the RSI is 100 when
\* no close is lower than its predecessor, and 0 when no close is higher
\* than its predecessor and at least one of the last 14 changes is a fall;
\* for a series of fewer than 15 closes the RSI is the neutral 50.
C16_MonotoneRsiWithEnoughCloses ==
    indicators.computed =>
        /\ Len(Closes) < RsiPeriods + 1 => FracEq(indicators.rsi, Whole(50))
        /\ (Len(Closes) >= RsiPeriods + 1 /\ NonDecreasing(Closes))
              => FracEq(indicators.rsi, Whole(100))
        /\ (/\ Len(Closes) >= RsiPeriods + 1
            /\ NonIncreasing(Closes)
            /\ \E i \in LastChanges(Closes, RsiPeriods) : Closes[i] < Closes[i - 1])
              => FracEq(indicators.rsi, Whole(0))

\* the RSI of more than 15 closes, none higher than its predecessor, that
\* stay level at first and fall in the end, was computed and is 0
C16_Witness ==
    /\ indicators.computed
    /\ Len(Closes) > RsiPeriods + 1
    /\ NonIncreasing(Closes)
    /\ Closes[2] = Closes[1]
    /\ Closes[Len(Closes)] < Closes[Len(Closes) - 1]
    /\ FracEq(indicators.rsi, Whole(0))

\* ------------------------------------------------------------------ C17
\* the rises and the falls of the last n changes of the prices ps, summed
RECURSIVE Rise(_, _)
Rise(ps, I) ==
    IF I = {} THEN 0
    ELSE LET i == CHOOSE j \in I : TRUE
         IN  (IF ps[i] > ps[i - 1] THEN ps[i] - ps[i - 1] ELSE 0) + Rise(ps, I \ {i})
RECURSIVE Fall(_, _)
Fall(ps, I) ==
    IF I = {} THEN 0
    ELSE LET i == CHOOSE j \in I : TRUE
         IN  (IF ps[i] < ps[i - 1] THEN ps[i - 1] - ps[i] ELSE 0) + Fall(ps, I \ {i})

\* C17: RSI is bounded and looks back over a fixed window. For every
\* series of closes the RSI lies between 0 and 100 inclusive; where the
\* series has at least 14 changes, the RSI is 100 if none of the last 14
\* changes is a fall, and otherwise the share, in hundredths, of the rises
\* in the rises and falls of the last 14 changes: no earlier change counts.
C17_RsiBoundedOverLastChanges ==
    indicators.computed =>
        /\ FracLe(Whole(0), indicators.rsi)
        /\ FracLe(indicators.rsi, Whole(100))
        /\ Len(Closes) >= RsiPeriods + 1 =>
              LET last == LastChanges(Closes, RsiPeriods)
                  rise == Rise(Closes, last)
                  fall == Fall(Closes, last)
              IN  IF fall = 0 THEN FracEq(indicators.rsi, Whole(100))
                  ELSE FracEq(indicators.rsi, Frac(100 * rise, rise + fall))

\* the RSI of closes that fell before the last 14 changes and both rose
\* and fell within them was computed and lies strictly between 0 and 100
C17_Witness ==
    /\ indicators.computed
    /\ Len(Closes) > RsiPeriods + 2
    /\ Closes[2] < Closes[1]
    /\ Rise(Closes, LastChanges(Closes, RsiPeriods)) > 0
    /\ Fall(Closes, LastChanges(Closes, RsiPeriods)) > 0
    /\ ~FracLe(indicators.rsi, Whole(0))
    /\ ~FracLe(Whole(100), indicators.rsi)

\* ------------------------------------------------------------------ C18
\* the positions that have SwingWindow prices on each side
Inner(ps) == {i \in 1..Len(ps) : i > SwingWindow /\ i <= Len(ps) - SwingWindow}
\* the prices that are lowest, or highest, among the SwingWindow prices on
\* each side of them
SwingLows(ps) ==
    {ps[i] : i \in {j \in Inner(ps) :
                      \A k \in (j - SwingWindow)..(j + SwingWindow) : ps[j] <= ps[k]}}
SwingHighs(ps) ==
    {ps[i] : i \in {j \in Inner(ps) :
                      \A k \in (j - SwingWindow)..(j + SwingWindow) : ps[j] >= ps[k]}}
\* xs lists the numbers of S once each, in ascending order
Ascending(xs, S) ==
    /\ Range(xs) = S
    /\ \A i \in 2..Len(xs) : xs[i - 1] < xs[i]

\* C18: swing-point support and resistance are the extrema over a window
\* of 5 candles each side. The support levels are the distinct lows that
\* are the lowest of their window, the resistance levels are the distinct
\* highs that are the highest of their window, each list ascending.
C18_SwingPointExtrema ==
    indicators.computed =>
        /\ Ascending(indicators.support_levels, SwingLows(Lows))
        /\ Ascending(indicators.resistance_levels, SwingHighs(Highs))

\* ------------------------------------------------------------------ C19
\* C19: the report assembler is a pure function of the fetched record
\* sets. Any two assemblies from the same results give the same outcome
\* and character-identical text, whatever the clock reads at either.
C19_AssemblyIsPure ==
    \A m \in 1..Len(reports) : \A n \in 1..Len(reports) :
        /\ reports[m].raised = reports[n].raised
        /\ reports[m].text = reports[n].text

\* ------------------------------------------------------------------ C20
\* thread t issues its next request in this step, and it is a POST to the
\* clearance service
ClearanceCall(t) ==
    /\ Len(trace'[t]) = Len(trace[t]) + 1
    /\ trace'[t][Len(trace'[t])].op = "cf"

\* the last request of thread t in its current operation was a direct GET
\* that received a 401 or a 403
JustDenied(t) ==
    /\ trace[t] # <<>>
    /\ trace[t][Len(trace[t])].op = "direct"
    /\ Denied(trace[t][Len(trace[t])])

\* C20: the clearance service is contacted only when the session lacks
\* valid clearance cookies or a direct request has just received a 401 or
\* a 403. No step issues a clearance call while has_valid_cookies is true
\* unless the immediately preceding direct response was 401 or 403.
C20_ClearanceOnlyWhenNeeded ==
    [][\A t \in Threads :
          (ClearanceCall(t) /\ has_valid_cookies) => JustDenied(t)]_vars

\* ------------------------------------------------------------------ C21
\* the exception that a DexScreen component raises, and the text that its
\* message begins with
ExceptionOf(d) == IF d.component = "DexScreenAPI" THEN "ValueError" ELSE "ToolException"
PrefixOf(d) ==
    CASE d.component = "DexScreenTool" -> "Error retrieving data from DexScreener API: "
      [] d.component = "PairsTool" -> "Error retrieving pairs: "
      [] d.component = "OrdersTool" -> "Error retrieving token orders: "
      [] d.component = "SearchTool" -> "Error searching pairs: "
      [] OTHER -> "Error fetching data from DexScreener API: "

\* the messages of the input-validation errors
ValidationMessages ==
    {"Both chain_id and token_addresses are required for GET_TOKEN_ORDERS",
     "Both chain_id and pair_id are required for GET_PAIRS",
     "token_addresses is required for GET_PAIRS_BY_TOKEN",
     "Maximum of 30 token addresses allowed",
     "search_query is required for SEARCH_PAIRS", "Unknown method",
     "Both chain_id and pair_id are required",
     "Both chain_id and token_address are required",
     "search_query is required", "Token addresses are required",
     "Search query is required"}

\* C21: every failure of a DexScreen call is surfaced as a single reported
\* failure with a descriptive message and no partial result. A call whose
\* input is invalid, or whose request comes back with an error status, a
\* transport error or a body of another shape, raises the one exception of
\* its component, whose message is the component's prefix followed by the
\* underlying error; a tool keeps that same message as its status; and no
\* Data is returned. A call returns Data only when its request succeeded.
C21_FailureSurfacedOnce ==
    dex # NoDexCall =>
        IF dex.http = "ok"
        THEN dex.kind = "data" /\ dex.message = <<>> /\ dex.status = <<>>
        ELSE /\ dex.kind = ExceptionOf(dex)
             /\ Len(dex.message) = 2
             /\ dex.message[1] = PrefixOf(dex)
             /\ IF dex.http = "none"
                THEN dex.requests = <<>> /\ dex.message[2] \in ValidationMessages
                ELSE Len(dex.requests) = 1 /\ dex.message[2] = dex.http
             /\ dex.component # "DexScreenAPI" => dex.status = dex.message

\* a tool has raised its exception for an error status of the upstream
\* service, and its status is the message of the exception
C21_Witness ==
    /\ dex.component = "PairsTool"
    /\ dex.http = "http_error"
    /\ dex.kind = "ToolException"
    /\ dex.status = <<"Error retrieving pairs: ", "http_error">>

\* ------------------------------------------------------------------ C22
\* the call of thread t is over and succeeded on the first try: its only
\* GET is a session GET that came back 200 with a body that decodes
FirstTrySuccess(t) ==
    /\ InMakeRequest(t) /\ pc[t] = "done"
    /\ Cardinality(Gets(t)) = 1
    /\ \E i \in Ops(t, "direct") :
          ~trace[t][i].raised /\ trace[t][i].status = 200 /\ trace[t][i].json_ok

\* C22: when the request succeeds on the first try, _make_request issues
\* exactly one session GET, addressed to BASE_URL + endpoint with the
\* parameters of the caller passed as the params of the request, and it
\* returns the decoded body unchanged.
C22_FirstTryRequestAndResult ==
    \A t \in Threads :
        FirstTrySuccess(t) =>
            \E i \in Ops(t, "direct") :
                /\ Ops(t, "direct") = {i}
                /\ trace[t][i].address = BASE_URL \o Endpoint(call[t])
                /\ trace[t][i].params = Params(call[t])
                /\ result[t].kind = "value"
                /\ result[t].value = trace[t][i].body

\* ------------------------------------------------------------------ C23
\* the call of thread t is over and failed after its direct GETs and its
\* proxy GET both failed
BothPathsFailed(t) ==
    /\ InMakeRequest(t) /\ pc[t] = "done" /\ result[t].kind = "error"
    /\ Ops(t, "direct") # {} /\ Ops(t, "proxy") # {}

\* C23: whenever both the direct path and the proxy path fail, the failure
\* that _make_request reports is the failure of the proxy: the status code
\* of the proxy's response, or the exception of the proxy request or of the
\* decoding of its body; nothing of the direct response is in it.
C23_FailureCarriesOnlyProxyDetail ==
    \A t \in Threads :
        BothPathsFailed(t) =>
            \E i \in Ops(t, "proxy") :
                /\ Ops(t, "proxy") = {i}
                /\ \A j \in Ops(t, "direct") : j < i
                /\ IF trace[t][i].raised \/ trace[t][i].status = 200
                   THEN /\ result[t].error = FetchFailed
                        /\ result[t].status = 0
                        /\ trace[t][i].raised \/ ~trace[t][i].json_ok
                   ELSE /\ result[t].error = RequestFailed
                        /\ result[t].status = trace[t][i].status
C23_Witness ==
    \E t \in Threads :
        /\ BothPathsFailed(t)
        /\ result[t].error = RequestFailed /\ result[t].status = 500
        /\ \A j \in Ops(t, "direct") :
              ~trace[t][j].raised /\ trace[t][j].status = 403

\* ------------------------------------------------------------------ C24
\* C24: has_valid_cookies starts false and no step of any client operation
\* changes it from true back to false.
C24_ValidCookiesMonotonic ==
    ~has_valid_cookies /\ [][has_valid_cookies => has_valid_cookies']_vars
\* the flag is still true after a call that met a 401/403, a failed
\* clearance refresh and a failed proxy request
C24_Witness ==
    /\ has_valid_cookies
    /\ \E t \in Threads :
          /\ BothPathsFailed(t)
          /\ \E i \in Ops(t, "direct") : Denied(trace[t][i])
          /\ \E i \in Ops(t, "cf") :
                trace[t][i].raised \/ trace[t][i].status # 200

\* ------------------------------------------------------------------ C25
\* a step of thread t inside a call of _get_cf_clearance that returns
\* False: the POST that fails, or a turn of the cookie loop of a response
\* that holds a malformed entry, at which the call will raise and return False
FailingClearanceStep(t) ==
    \/ /\ pc[t] = "cf_post"
       /\ pc'[t] \notin {"cf_post", "cf_cookies"}
    \/ /\ pc[t] = "cf_cookies"
       /\ cf_pending'[t] # cf_pending[t]
       /\ \E i \in DOMAIN cf_pending[t].cookies : ~cf_pending[t].cookies[i].ok

\* C25: a failed clearance attempt changes nothing: no step of a call of
\* _get_cf_clearance that returns False changes has_valid_cookies, the
\* cookie jar of the session or its user-agent.
C25_FailedClearanceChangesNothing ==
    [][\A t \in Threads : FailingClearanceStep(t) => UNCHANGED session]_vars
\* the same, for the attempts that fail before the cookie loop
C25_FailedPostChangesNothing ==
    [][\A t \in Threads :
          (pc[t] = "cf_post" /\ pc'[t] \notin {"cf_post", "cf_cookies"})
              => UNCHANGED session]_vars

\* ------------------------------------------------------------------ C26
\* a step of the proxy try of thread t that ends its call with a failure
FailingProxyStep(t) ==
    /\ pc[t] \in {"proxy", "proxy_response"}
    /\ pc'[t] = "done" /\ result'[t].kind = "error"

\* C26: the proxy step of _make_request modifies the session cookies only
\* when the call returns successfully: when the proxy response is not 200,
\* the proxy request raises or the 200 body cannot be decoded, the call
\* fails and the cookie jar is as it was before.
C26_ProxyFailureKeepsCookies ==
    [][\A t \in Threads : FailingProxyStep(t) => UNCHANGED cookies]_vars
\* the same, for the failures other than an undecodable 200 body
C26_ProxyErrorKeepsCookies ==
    [][\A t \in Threads :
          (FailingProxyStep(t) /\ (pc[t] = "proxy" \/ response[t].status # 200))
              => UNCHANGED cookies]_vars

\* ------------------------------------------------------------------ C27
\* the 'data' of the response that a fetch returned, be the response a dict
\* or a response model; empty when the response has no 'data'
DataOf(o) == Get(JsonDict(o.d), "data", EmptyDict)
\* the report is assembled from the results of the fetches
Assembled ==
    /\ report.pc = "done" /\ Len(reports) = 1
    /\ reports[1] = AssembleReport(results, now)

\* C27: every successful fetch reaches its section: for each of the 13
\* fetches, token stats and tag wallet count included, the record handed to
\* the formatter of the section is the 'data' of the response of the fetch
\* whenever the fetch returned, and it is empty only when the fetch raised
\* or its response had no 'data'.
C27_EverySuccessfulFetchReachesItsSection ==
    Assembled =>
        \A i \in Fetches :
            results[i] # FetchRaised => Record(results[i]) = DataOf(results[i])
\* the same, for the fetches whose endpoint method returns the decoded body
C27_DictFetchReachesItsSection ==
    Assembled =>
        \A i \in Fetches :
            (results[i] # FetchRaised /\ ~Wrapped(i))
                => Record(results[i]) = DataOf(results[i])

\* ------------------------------------------------------------------ C28
\* the stage at which _format_kline_data stops for the dict r, told from r
\* alone: the sentence of the stage, or "analysis"
KlineStage(r) ==
    IF "list" \notin DOMAIN r.d THEN "No price data available."
    ELSE LET l        == r.d["list"]
             items    == l.items
             Complete == {i \in 1..Len(items) :
                            items[i].t = "dict" /\ CandleKeys \subseteq DOMAIN items[i].d}
             first    == CHOOSE i \in Complete : \A j \in Complete : i <= j
         IN  IF l.t # "list" THEN "other"
             ELSE IF items = <<>> THEN "No candlestick data available."
             ELSE IF \E i \in 1..Len(items) : items[i].t # "dict"
             THEN "other"
             ELSE IF Complete = {} THEN "Invalid candle data format."
             ELSE IF \/ \E i \in Complete, k \in CandleKeys : ~IsNumber(items[i].d[k])
                     \/ Number(items[first].d["open"]) = 0
                     \/ \E i \in Complete :
                           /\ Number(items[i].d["low"]) = 0
                           /\ \A j \in Complete :
                                 Number(items[j].d["low"]) >= 0
             THEN "Error processing price data."
             ELSE "analysis"

KlineSentences ==
    {"No price data available.", "No candlestick data available.",
     "Invalid candle data format.", "Error processing price data."}

\* what the claim says of the kline record r formatted with timeframe tf
StagedKline(r, tf) ==
    LET out    == FormatKlineData(r, tf, now)
        header == "### Price Chart Analysis (" \o tf \o ")"
    IN  IsDict(r) =>
            /\ ~out.raised
            /\ out.lines[1] = header
            /\ Len(out.lines) = 2 => out.lines[2] \in KlineSentences
            /\ KlineStage(r) \in KlineSentences
                  => out.lines = <<header, KlineStage(r)>>
            /\ KlineStage(r) = "analysis"
                  => Len(out.lines) > 2 /\ out.lines[2] = "#### Key Metrics"

\* C28: _format_kline_data never raises for a dict: it returns 'No price
\* data available.' when the 'list' key is missing, 'No candlestick data
\* available.' when the list is empty, 'Invalid candle data format.' when
\* no candle has all six fields, 'Error processing price data.' when a
\* computation fails (a zero period open, a zero lowest price, a field that
\* is no number) and the full analysis otherwise, each under the header
\* '### Price Chart Analysis (<timeframe>)'; and the report holds that text.
C28_KlineDegradesInStages ==
    Len(reports) = 1 =>
        /\ StagedKline(Record(results[kline_5m]), "5m")
        /\ StagedKline(Record(results[kline_4h]), "4h")
        /\ ~reports[1].raised =>
              /\ SectionOf(reports[1], 11)
                    = FormatKlineData(Record(results[kline_5m]), "5m", now).lines
              /\ SectionOf(reports[1], 13)
                    = FormatKlineData(Record(results[kline_4h]), "4h", now).lines
C28_Witness ==
    /\ Len(reports) = 1 /\ ~reports[1].raised
    /\ IsDict(Record(results[kline_5m])) /\ IsDict(Record(results[kline_4h]))
    /\ KlineStage(Record(results[kline_5m])) = "Error processing price data."
    /\ Record(results[kline_5m]).d["list"].items[1].d["open"] = JsonStr("0")
    /\ SectionOf(reports[1], 11)
          = <<"### Price Chart Analysis (5m)", "Error processing price data.">>
    /\ KlineStage(Record(results[kline_4h])) = "analysis"

\* ------------------------------------------------------------------ C29
Flags == {"Potential Bull Flag", "Potential Bear Flag"}
\* the slope of the regression line through the last 10 closes has the sign
\* of this number
RecentSlope ==
    LET y == LastN(Closes, 10)
        n == Len(y)
    IN  n * Sum([i \in 1..n |-> (i - 1) * y[i]])
          - Sum([i \in 1..n |-> i - 1]) * Sum(y)

\* C29: find_patterns reports a flag only when the trend of the last 10
\* closes is not neutral: with more than 10 candles a positive slope yields
\* 'Potential Bull Flag', a negative slope 'Potential Bear Flag', and a
\* zero slope (flat last 10 closes) no flag; with 10 candles or fewer there
\* is no flag.
C29_FlagOnlyOnTrend ==
    indicators.computed =>
        Range(indicators.patterns) \cap Flags =
            IF Len(candles) > 10 /\ RecentSlope > 0 THEN {"Potential Bull Flag"}
            ELSE IF Len(candles) > 10 /\ RecentSlope < 0 THEN {"Potential Bear Flag"}
            ELSE {}
\* the same, for the series whose last 10 closes are not flat
C29_FlagOfNonZeroSlope ==
    (indicators.computed /\ RecentSlope # 0) =>
        Range(indicators.patterns) \cap Flags =
            IF Len(candles) > 10 /\ RecentSlope > 0 THEN {"Potential Bull Flag"}
            ELSE IF Len(candles) > 10 /\ RecentSlope < 0 THEN {"Potential Bear Flag"}
            ELSE {}

\* ------------------------------------------------------------------ C30
\* the requests of the call to the tokens endpoint
TokenRequests ==
    {i \in DOMAIN dex.requests : dex.requests[i].endpoint = "/latest/dex/tokens"}
\* the call came to the lookup of pairs by token addresses
TokensLookup ==
    /\ ~Falsy(dex.token_addresses)
    /\ \/ dex.method = "get_pairs_by_token"
       \/ /\ dex.component = "DexScreenAPI"
          /\ Falsy(dex.chain_id) \/ Falsy(dex.pair_id)

\* C30: every request to the tokens endpoint carries at least 1 and at most
\* 30 addresses: a token_addresses text that, trimmed and without its empty
\* entries, lists more than 30 addresses or none fails before any request,
\* and otherwise exactly the trimmed non-empty addresses are sent,
\* comma-joined in the order of the input.
C30_TokensRequestCarriesAddresses ==
    LET l == AddressesList(dex.token_addresses.text)
    IN  /\ \A i \in TokenRequests :
              /\ Len(l) >= 1 /\ Len(l) <= MaxAddresses
              /\ dex.requests[i].args = <<Join(l, <<",">>)>>
        /\ (TokensLookup /\ (Len(l) = 0 \/ Len(l) > MaxAddresses))
              => dex.requests = <<>> /\ dex.kind # "data"
\* the same, for the texts that list at least one address
C30_NonEmptyListCarriesAddresses ==
    LET l == AddressesList(dex.token_addresses.text)
    IN  Len(l) >= 1 =>
          /\ \A i \in TokenRequests :
                /\ Len(l) <= MaxAddresses
                /\ dex.requests[i].args = <<Join(l, <<",">>)>>
          /\ (TokensLookup /\ Len(l) > MaxAddresses)
                => dex.requests = <<>> /\ dex.kind # "data"

=============================================================================
